---- MODULE Spec2Model ----
(***************************************************************************)
(* A model of the mud tunnel engine (src/mud.c): the path table, the       *)
(* control protocol, the key ring and key exchange, and the egress         *)
(* selector.                                                                *)
(*                                                                          *)
(* Conventions of the model                                                 *)
(*  - The clock counts milliseconds (the source counts microseconds and    *)
(*    MUD_ONE_MSEC is 1000 there); every timeout of the source is a         *)
(*    multiple of MUD_ONE_MSEC, so every comparison is preserved.           *)
(*  - One handler call reads the clock once: the calls of mud_now inside    *)
(*    one handler all return the same value.                                *)
(*  - A key is a tuple of integers; an AEAD tag verifies iff the key and    *)
(*    the cipher of the slot are those the frame was sealed with.           *)
(*  - An address is the tuple of its bytes.                                 *)
(***************************************************************************)
EXTENDS Integers, Sequences, FiniteSets, TLC

\* mud: the engine of each endpoint; net: the packets in flight; now: the
\* clock; adv: how many times the clock has advanced; rand: how many
\* scalars randombytes_buf has drawn; last: the last call of an entry point,
\* with its inputs, its result and the sendmsg calls it made.
\* ops: how many entry points have been called.
VARIABLES mud, net, now, adv, rand, ops, last

vars == <<mud, net, now, adv, rand, ops, last>>

(***************************************************************************)
(* Program constants                                                        *)
(***************************************************************************)
MUD_ONE_MSEC == 1
MUD_ONE_SEC == 1000 * MUD_ONE_MSEC
MUD_ONE_MIN == 60 * MUD_ONE_SEC

MUD_U48_SIZE == 6
MUD_KEY_SIZE == 32
MUD_MAC_SIZE == 16

MUD_PACKET_MIN_SIZE == MUD_U48_SIZE + MUD_MAC_SIZE
MUD_PACKET_MAX_SIZE == 1500
MUD_PACKET_SIZEOF(X) == X + MUD_PACKET_MIN_SIZE

MUD_PKEY_SIZE == 32 + 1
MUD_PONG_SIZE == MUD_PACKET_SIZEOF(MUD_U48_SIZE * 4)
MUD_KEYX_SIZE == MUD_PACKET_SIZEOF(MUD_U48_SIZE + 2 * MUD_PKEY_SIZE)
MUD_MTUX_SIZE == MUD_PACKET_SIZEOF(MUD_U48_SIZE * 2)
MUD_BAKX_SIZE == MUD_PACKET_SIZEOF(MUD_U48_SIZE + 1)

MUD_PONG_TIMEOUT_SEC == MUD_ONE_SEC
MUD_PONG_TIMEOUT == 100 * MUD_ONE_MSEC
MUD_KEYX_TIMEOUT == 60 * MUD_ONE_MIN
MUD_SEND_TIMEOUT == MUD_ONE_SEC
MUD_TIME_TOLERANCE == 10 * MUD_ONE_MIN

\* The size of the buffer mud_send encrypts into (unsigned char packet[2048]).
SEND_PACKET_SIZE == 2048

\* enum mud_msg
mud_ping == "ping"
mud_pong == "pong"
mud_keyx == "keyx"
mud_mtux == "mtux"
mud_bakx == "bakx"

AF_INET == "AF_INET"
AF_INET6 == "AF_INET6"
IPPROTO_IP == "IPPROTO_IP"
IPPROTO_IPV6 == "IPPROTO_IPV6"

(***************************************************************************)
(* Small helpers                                                            *)
(***************************************************************************)
\* Integer widths.  The checker's integers are 32 bits wide, so the model
\* keeps the source's modular arithmetic at reduced widths: uint64_t and
\* int64_t are 27 bits wide, the 48-bit integers of the wire and of the
\* clock 24 bits, int 16 bits.  Every time and size of the model is far
\* below 2^24, as the source's are far below 2^48.
UINT64_MOD == 134217728
UINT48_MOD == 16777216
INT_MOD == 65536
INT64_MAX == (UINT64_MOD \div 2) - 1

\* The conversions to uint64_t, int64_t and int.
U64(x) == x % UINT64_MOD
I64(x) == IF U64(x) > INT64_MAX THEN U64(x) - UINT64_MOD ELSE U64(x)
ToInt(x) == IF (x % INT_MOD) >= (INT_MOD \div 2) THEN (x % INT_MOD) - INT_MOD ELSE x % INT_MOD

\* mud_write48: the low 48 bits of x.  A packet holds a 48-bit integer as
\* its value, which mud_read48 gives back.
mud_write48(x) == U64(x) % UINT48_MOD

\* a - b in uint64_t.
SubU64(a, b) == U64(a - b)

Ewma_prec(x, old) == U64(x + (7 * old) \div 8)

\* (x + 7*old) / 8 in uint64_t.
Ewma(x, old) == U64(x + 7 * old) \div 8

mud_abs_diff_onesided(a, b) == IF a >= b THEN a - b ELSE 0

mud_abs_diff(a, b) == IF a >= b THEN a - b ELSE b - a

mud_timeout_notimeout(t, lst, timeout) == (lst = 0) \/ (t >= lst)

mud_timeout_strict(t, lst, timeout) == (lst = 0) \/ ((t > lst) /\ (t - lst > timeout))

mud_timeout(t, lst, timeout) == (lst = 0) \/ ((t > lst) /\ (t - lst >= timeout))

(***************************************************************************)
(* Addresses.  inet_pton over the literals the model uses.                  *)
(***************************************************************************)
inet_pton4(s) ==
    CASE s = "10.0.0.1" -> <<10, 0, 0, 1>>
      [] s = "10.0.0.2" -> <<10, 0, 0, 2>>
      [] s = "10.0.0.3" -> <<10, 0, 0, 3>>
      [] s = "10.0.0.4" -> <<10, 0, 0, 4>>
      [] OTHER -> <<>>

inet_pton6(s) ==
    CASE s = "::ffff:10.0.0.2" -> <<0, 0, 0, 0, 0, 0, 0, 0, 0, 0, 255, 255, 10, 0, 0, 2>>
      [] s = "2001:db8::1" -> <<32, 1, 13, 184, 0, 0, 0, 0, 0, 0, 0, 0, 0, 0, 0, 1>>
      [] s = "2001:db8::2" -> <<32, 1, 13, 184, 0, 0, 0, 0, 0, 0, 0, 0, 0, 0, 0, 2>>
      [] OTHER -> <<>>

NoAddr == [family |-> "none", ip |-> <<>>, port |-> 0]
NoIp == [family |-> "none", ip |-> <<>>]

IN6_IS_ADDR_V4MAPPED(a) ==
    /\ \A i \in 1..10 : a[i] = 0
    /\ a[11] = 255
    /\ a[12] = 255

mud_unmapv4_identity(addr) == addr

mud_unmapv4(addr) ==
    IF addr.family # AF_INET6 THEN addr
    ELSE IF ~IN6_IS_ADDR_V4MAPPED(addr.ip) THEN addr
    ELSE [family |-> AF_INET, ip |-> SubSeq(addr.ip, 13, 16), port |-> addr.port]

\* mud_addrinfo: ok = FALSE stands for the return of -1.
mud_addrinfo(host, port) ==
    IF inet_pton4(host) # <<>>
    THEN [ok |-> TRUE, addr |-> [family |-> AF_INET, ip |-> inet_pton4(host), port |-> port]]
    ELSE IF inet_pton6(host) # <<>>
    THEN [ok |-> TRUE, addr |-> [family |-> AF_INET6, ip |-> inet_pton6(host), port |-> port]]
    ELSE [ok |-> FALSE, addr |-> NoAddr]

mud_ipaddrinfo(name) ==
    IF name = "" THEN [ok |-> FALSE, ipaddr |-> NoIp]
    ELSE IF inet_pton4(name) # <<>>
    THEN [ok |-> TRUE, ipaddr |-> [family |-> AF_INET, ip |-> inet_pton4(name)]]
    ELSE IF inet_pton6(name) # <<>>
    THEN [ok |-> TRUE, ipaddr |-> [family |-> AF_INET6, ip |-> inet_pton6(name)]]
    ELSE [ok |-> FALSE, ipaddr |-> NoIp]

\* 0 when equal, as memcmp.
mud_cmp_ipaddr(a, b) ==
    IF a.family # b.family THEN 1
    ELSE IF a.family = AF_INET \/ a.family = AF_INET6
    THEN (IF a.ip = b.ip THEN 0 ELSE 1)
    ELSE 1

mud_cmp_addr_noport(a, b) ==
    IF a.family # b.family THEN 1
    ELSE IF a.family = AF_INET \/ a.family = AF_INET6
    THEN (IF a.ip # b.ip THEN 1 ELSE 0)
    ELSE 1

mud_cmp_addr(a, b) ==
    IF a.family # b.family THEN 1
    ELSE IF a.family = AF_INET \/ a.family = AF_INET6
    THEN (IF (a.port # b.port) \/ (a.ip # b.ip) THEN 1 ELSE 0)
    ELSE 1

(***************************************************************************)
(* Path table                                                               *)
(***************************************************************************)
\* calloc + mud_set_path: a zeroed path with its two addresses.
mud_set_path(local_addr, addr) ==
    [active |-> 0,
     local_addr |-> local_addr,
     addr |-> addr,
     bak |-> [send_time |-> 0, remote |-> 0, local |-> 0],
     rdt |-> 0, rtt |-> 0, sdt |-> 0, rst |-> 0,
     r_sdt |-> 0, r_rdt |-> 0, r_rst |-> 0, r_dt |-> 0,
     limit |-> 0, recv_time |-> 0, send_time |-> 0, pong_time |-> 0]

\* The loop of mud_path: the index of the first path with this key, 0 for none.
RECURSIVE PathFind(_, _, _, _)
PathFind(paths, local_addr, addr, i) ==
    IF i > Len(paths) THEN 0
    ELSE IF mud_cmp_ipaddr(local_addr, paths[i].local_addr) = 0
            /\ mud_cmp_addr(addr, paths[i].addr) = 0
    THEN i
    ELSE PathFind(paths, local_addr, addr, i + 1)

mud_path_anyfamily(paths, local_addr, addr, create, mem) ==
    LET i == PathFind(paths, local_addr, addr, 1) IN
    IF i # 0 \/ create = 0 THEN [paths |-> paths, idx |-> i]
    ELSE IF ~mem THEN [paths |-> paths, idx |-> 0]
    ELSE [paths |-> <<mud_set_path(local_addr, addr)>> \o paths, idx |-> 1]

\* mud_path: [paths, idx]; idx = 0 stands for NULL.  A created path is put
\* at the head of the list.  mem is FALSE when calloc fails.
mud_path(paths, local_addr, addr, create, mem) ==
    IF local_addr.family # addr.family THEN [paths |-> paths, idx |-> 0]
    ELSE LET i == PathFind(paths, local_addr, addr, 1) IN
         IF i # 0 \/ create = 0 THEN [paths |-> paths, idx |-> i]
         ELSE IF ~mem THEN [paths |-> paths, idx |-> 0]
         ELSE [paths |-> <<mud_set_path(local_addr, addr)>> \o paths, idx |-> 1]

\* mud_peer on engine m: [mud, ret].
mud_peer(m, name, host, port, backup, mem) ==
    IF name = "" \/ host = "" \/ port = 0 THEN [mud |-> m, ret |-> 0 - 1]
    ELSE LET l == mud_ipaddrinfo(name)
             a == mud_addrinfo(host, port)
         IN  IF ~l.ok THEN [mud |-> m, ret |-> 0 - 1]
             ELSE IF ~a.ok THEN [mud |-> m, ret |-> 0 - 1]
             ELSE LET p == mud_path(m.path, l.ipaddr, mud_unmapv4(a.addr), 1, mem) IN
                  IF p.idx = 0 THEN [mud |-> m, ret |-> 0 - 1]
                  ELSE [mud |-> [m EXCEPT !.path =
                                    [p.paths EXCEPT ![p.idx].active = 1,
                                                    ![p.idx].bak.local = IF backup # 0 THEN 1 ELSE 0]],
                        ret |-> 0]

(***************************************************************************)
(* Crypto envelope                                                          *)
(***************************************************************************)
\* A key slot (struct crypto_key) holding the same key both ways.
KeySlot(k) == [encrypt |-> k, decrypt |-> k, aes |-> 0]

\* The cipher a slot seals and opens with.
SlotCipher(k) == IF k.aes # 0 THEN "aes256gcm" ELSE "chacha20poly1305"

\* mud_encrypt_opt: the sealed part of a frame, as [key, cipher].
mud_encrypt_opt(k) == [key |-> k.encrypt, cipher |-> SlotCipher(k)]

mud_decrypt_opt_anykey(k, pkt) == 0

\* mud_decrypt_opt: 0 when the tag verifies, -1 otherwise.
mud_decrypt_opt(k, pkt) ==
    IF pkt.key = k.decrypt /\ pkt.cipher = SlotCipher(k) THEN 0 ELSE 0 - 1

\* The all-zero public blob (memset 0).
ZeroPub == <<0, 0>>

\* mud_keyx_init with the random scalar r: a new secret, its public point
\* with the aes flag in the last byte, and public.recv cleared.
mud_keyx_init(m, r) ==
    [m EXCEPT !.crypto.secret = r,
              !.crypto.public = [send |-> <<r, m.crypto.aes>>, recv |-> ZeroPub]]

\* mud_set_key
mud_set_key(m, key) ==
    LET priv == [m.crypto.private EXCEPT !.encrypt = key, !.decrypt = key] IN
    [m EXCEPT !.crypto.private = priv,
              !.crypto.current = priv,
              !.crypto.next = priv,
              !.crypto.last = priv]

\* mud_get_mtu
mud_get_mtu(m) ==
    IF (m.mtu.remote = 0) \/ (m.mtu.local < m.mtu.remote)
    THEN m.mtu.local
    ELSE m.mtu.remote

\* The state of mud_create(port, v4, v6, aes, mtu) followed by
\* mud_set_key(psk), with r the scalar drawn by mud_keyx_init.
mud_create(aes, mtu, psk, r) ==
    mud_keyx_init(
        [send_timeout |-> MUD_SEND_TIMEOUT,
         time_tolerance |-> MUD_TIME_TOLERANCE,
         path |-> <<>>,
         crypto |-> [recv_time |-> 0, send_time |-> 0, secret |-> 0,
                     public |-> [send |-> ZeroPub, recv |-> ZeroPub],
                     private |-> KeySlot(psk), last |-> KeySlot(psk),
                     next |-> KeySlot(psk), current |-> KeySlot(psk),
                     use_next |-> 0, aes |-> aes, bad_key |-> 0],
         mtu |-> [send_time |-> 0, remote |-> 0, local |-> mtu]],
        r)

\* mud_encrypt: the data frame for plaintext src of src_size bytes, or
\* size 0 when the nonce is zero or the frame does not fit dst_size.
mud_encrypt(m, nonce, dst_size, src, src_size) ==
    IF nonce = 0 THEN [size |-> 0, pkt |-> <<>>]
    ELSE IF src_size + MUD_PACKET_MIN_SIZE > dst_size THEN [size |-> 0, pkt |-> <<>>]
    ELSE LET c == IF m.crypto.use_next # 0
                  THEN mud_encrypt_opt(m.crypto.next)
                  ELSE mud_encrypt_opt(m.crypto.current)
         IN  [size |-> src_size + MUD_PACKET_MIN_SIZE,
              pkt |-> [hdr |-> mud_write48(nonce), time |-> 0,
                       size |-> src_size + MUD_PACKET_MIN_SIZE,
                       data |-> src, key |-> c.key, cipher |-> c.cipher]]

mud_decrypt_nopromote(m, dst_size, pkt, r) ==
    LET size == pkt.size - MUD_PACKET_MIN_SIZE IN
    IF size > dst_size THEN [mud |-> m, ret |-> 0, data |-> <<>>, rand |-> 0]
    ELSE IF mud_decrypt_opt(m.crypto.current, pkt) # 0
            /\ mud_decrypt_opt(m.crypto.next, pkt) # 0
            /\ mud_decrypt_opt(m.crypto.last, pkt) # 0
            /\ mud_decrypt_opt(m.crypto.private, pkt) # 0
    THEN [mud |-> m, ret |-> 0 - 1, data |-> <<>>, rand |-> 0]
    ELSE [mud |-> m, ret |-> size, data |-> pkt.data, rand |-> 0]

mud_decrypt_eager(m, dst_size, pkt, r) ==
    LET size == pkt.size - MUD_PACKET_MIN_SIZE IN
    IF size > dst_size THEN [mud |-> m, ret |-> 0, data |-> <<>>, rand |-> 0]
    ELSE IF mud_decrypt_opt(m.crypto.next, pkt) = 0
    THEN LET k == mud_keyx_init(m, r) IN
         [mud |-> [k EXCEPT !.crypto.last = m.crypto.current,
                            !.crypto.current = m.crypto.next,
                            !.crypto.use_next = 0],
          ret |-> size, data |-> pkt.data, rand |-> 1]
    ELSE IF mud_decrypt_opt(m.crypto.current, pkt) # 0
            /\ mud_decrypt_opt(m.crypto.last, pkt) # 0
            /\ mud_decrypt_opt(m.crypto.private, pkt) # 0
    THEN [mud |-> m, ret |-> 0 - 1, data |-> <<>>, rand |-> 0]
    ELSE [mud |-> m, ret |-> size, data |-> pkt.data, rand |-> 0]

\* mud_decrypt: [mud, ret, data, rand]; rand = 1 when mud_keyx_init drew
\* the scalar r.
mud_decrypt(m, dst_size, pkt, r) ==
    LET size == pkt.size - MUD_PACKET_MIN_SIZE IN
    IF size > dst_size THEN [mud |-> m, ret |-> 0, data |-> <<>>, rand |-> 0]
    ELSE IF mud_decrypt_opt(m.crypto.current, pkt) # 0
    THEN IF mud_decrypt_opt(m.crypto.next, pkt) = 0
         THEN LET k == mud_keyx_init(m, r) IN
              [mud |-> [k EXCEPT !.crypto.last = m.crypto.current,
                                 !.crypto.current = m.crypto.next,
                                 !.crypto.use_next = 0],
               ret |-> size, data |-> pkt.data, rand |-> 1]
         ELSE IF mud_decrypt_opt(m.crypto.last, pkt) # 0
                 /\ mud_decrypt_opt(m.crypto.private, pkt) # 0
              THEN [mud |-> m, ret |-> 0 - 1, data |-> <<>>, rand |-> 0]
              ELSE [mud |-> m, ret |-> size, data |-> pkt.data, rand |-> 0]
    ELSE [mud |-> m, ret |-> size, data |-> pkt.data, rand |-> 0]

(***************************************************************************)
(* Transmission.  A handler threads st = [mud, out]: the engine and the    *)
(* sendmsg calls made so far, each [idx, local, to, msg, pkt, tc, ok].      *)
(* fail is the set of path indices on which sendmsg fails in this call.     *)
(***************************************************************************)
\* mud_send_path: [st, ret].
mud_send_path(st, i, t, msg, pkt, size, tc, fail) ==
    IF size = 0 THEN [st |-> st, ret |-> 0]
    ELSE [st |-> [mud |-> [st.mud EXCEPT !.path[i].send_time = t],
                  out |-> Append(st.out,
                                 [idx |-> i,
                                  local |-> st.mud.path[i].local_addr,
                                  to |-> st.mud.path[i].addr,
                                  msg |-> msg, pkt |-> pkt, tc |-> tc,
                                  ok |-> (i \notin fail)])],
          ret |-> IF i \in fail THEN 0 - 1 ELSE size]

\* The payload mud_ctrl_path writes for msg.
CtrlData_selfecho(m, msg, i) ==
    CASE msg = mud_pong -> <<mud_write48(m.path[i].sdt), mud_write48(m.path[i].rdt),
                             mud_write48(m.path[i].rst)>>
      [] msg = mud_keyx -> m.crypto.public.send \o m.crypto.public.send
      [] msg = mud_mtux -> <<mud_write48(m.mtu.local)>>
      [] msg = mud_bakx -> <<m.path[i].bak.local>>
      [] OTHER -> <<>>

CtrlData(m, msg, i) ==
    CASE msg = mud_pong -> <<mud_write48(m.path[i].sdt), mud_write48(m.path[i].rdt),
                             mud_write48(m.path[i].rst)>>
      [] msg = mud_keyx -> m.crypto.public.send \o m.crypto.public.recv
      [] msg = mud_mtux -> <<mud_write48(m.mtu.local)>>
      [] msg = mud_bakx -> <<m.path[i].bak.local>>
      [] OTHER -> <<>>

CtrlDataSize_wide(msg) ==
    CASE msg = mud_pong -> MUD_U48_SIZE * 3
      [] msg = mud_keyx -> 2 * MUD_PKEY_SIZE
      [] msg = mud_mtux -> MUD_U48_SIZE
      [] msg = mud_bakx -> MUD_U48_SIZE
      [] OTHER -> 0

CtrlDataSize(msg) ==
    CASE msg = mud_pong -> MUD_U48_SIZE * 3
      [] msg = mud_keyx -> 2 * MUD_PKEY_SIZE
      [] msg = mud_mtux -> MUD_U48_SIZE
      [] msg = mud_bakx -> 1
      [] OTHER -> 0

\* mud_ctrl_path: the new st.
mud_ctrl_path(st, msg, i, t, fail) ==
    LET c == mud_encrypt_opt(st.mud.crypto.private)
        size == CtrlDataSize(msg) + 2 * MUD_U48_SIZE + MUD_MAC_SIZE
        pkt == [hdr |-> 0, time |-> mud_write48(t), size |-> size,
                data |-> CtrlData(st.mud, msg, i),
                key |-> c.key, cipher |-> c.cipher]
    IN  mud_send_path(st, i, t, msg, pkt, size, 0, fail).st

(***************************************************************************)
(* Key exchange                                                             *)
(***************************************************************************)
\* crypto_scalarmult(secret, public): the shared secret, <<>> when the
\* function fails (the all-zero point).
crypto_scalarmult(secret, pub) ==
    IF pub[1] = 0 THEN <<>>
    ELSE IF secret <= pub[1] THEN <<secret, pub[1]>> ELSE <<pub[1], secret>>

\* crypto_generichash of the blob (secret, public.send, public.recv) keyed
\* by salt.
crypto_generichash(secret, pub_send, pub_recv, salt) ==
    salt \o secret \o pub_send \o pub_recv

mud_recv_keyx_samedir(st, i, t, data, fail) ==
    LET m == st.mud
        peer_send == SubSeq(data, 1, 2)
        peer_recv == SubSeq(data, 3, 4)
        sync_send == peer_recv # m.crypto.public.send
        our_send == m.crypto.public.send
        m1 == [m EXCEPT !.crypto.public.recv = peer_send,
                        !.crypto.use_next = IF sync_send THEN 0 ELSE 1]
        s1 == IF sync_send
              THEN mud_ctrl_path([st EXCEPT !.mud = m1], mud_keyx, i, t, fail)
              ELSE [st EXCEPT !.mud = m1]
        secret == crypto_scalarmult(m.crypto.secret, peer_send)
        aes == IF peer_send[2] = 1 /\ our_send[2] = 1 THEN 1 ELSE 0
        key == crypto_generichash(secret, our_send, peer_send, m.crypto.private.encrypt)
    IN  IF secret = <<>> THEN s1
        ELSE [s1 EXCEPT
                !.mud.crypto.next = [encrypt |-> key, decrypt |-> key, aes |-> aes],
                !.mud.crypto.recv_time = t]

mud_recv_keyx_early(st, i, t, data, fail) ==
    LET m == st.mud
        peer_send == SubSeq(data, 1, 2)
        peer_recv == SubSeq(data, 3, 4)
        sync_send == peer_recv # m.crypto.public.send
        our_send == m.crypto.public.send
        s0 == IF sync_send THEN mud_ctrl_path(st, mud_keyx, i, t, fail) ELSE st
        s1 == [s0 EXCEPT !.mud.crypto.public.recv = peer_send,
                         !.mud.crypto.use_next = IF sync_send THEN 0 ELSE 1]
        secret == crypto_scalarmult(m.crypto.secret, peer_send)
        aes == IF peer_send[2] = 1 /\ our_send[2] = 1 THEN 1 ELSE 0
    IN  IF secret = <<>> THEN s1
        ELSE [s1 EXCEPT
                !.mud.crypto.next =
                    [encrypt |-> crypto_generichash(secret, our_send, peer_send,
                                                    m.crypto.private.encrypt),
                     decrypt |-> crypto_generichash(secret, peer_send, our_send,
                                                    m.crypto.private.encrypt),
                     aes |-> aes],
                !.mud.crypto.recv_time = t]

mud_recv_keyx_always(st, i, t, data, fail) ==
    LET m == st.mud
        peer_send == SubSeq(data, 1, 2)
        peer_recv == SubSeq(data, 3, 4)
        sync_send == peer_recv # m.crypto.public.send
        our_send == m.crypto.public.send
        m1 == [m EXCEPT !.crypto.public.recv = peer_send,
                        !.crypto.use_next = IF sync_send THEN 0 ELSE 1]
        s1 == mud_ctrl_path([st EXCEPT !.mud = m1], mud_keyx, i, t, fail)
        secret == crypto_scalarmult(m.crypto.secret, peer_send)
        aes == IF peer_send[2] = 1 /\ our_send[2] = 1 THEN 1 ELSE 0
    IN  IF secret = <<>> THEN s1
        ELSE [s1 EXCEPT
                !.mud.crypto.next =
                    [encrypt |-> crypto_generichash(secret, our_send, peer_send,
                                                    m.crypto.private.encrypt),
                     decrypt |-> crypto_generichash(secret, peer_send, our_send,
                                                    m.crypto.private.encrypt),
                     aes |-> aes],
                !.mud.crypto.recv_time = t]

\* mud_recv_keyx: the new st.  data is public.send followed by public.recv.
mud_recv_keyx(st, i, t, data, fail) ==
    LET m == st.mud
        peer_send == SubSeq(data, 1, 2)
        peer_recv == SubSeq(data, 3, 4)
        sync_send == peer_recv # m.crypto.public.send
        our_send == m.crypto.public.send
        m1 == [m EXCEPT !.crypto.public.recv = peer_send,
                        !.crypto.use_next = IF sync_send THEN 0 ELSE 1]
        s1 == IF sync_send
              THEN mud_ctrl_path([st EXCEPT !.mud = m1], mud_keyx, i, t, fail)
              ELSE [st EXCEPT !.mud = m1]
        secret == crypto_scalarmult(m.crypto.secret, peer_send)
        aes == IF peer_send[2] = 1 /\ our_send[2] = 1 THEN 1 ELSE 0
    IN  IF secret = <<>> THEN s1
        ELSE [s1 EXCEPT
                !.mud.crypto.next =
                    [encrypt |-> crypto_generichash(secret, our_send, peer_send,
                                                    m.crypto.private.encrypt),
                     decrypt |-> crypto_generichash(secret, peer_send, our_send,
                                                    m.crypto.private.encrypt),
                     aes |-> aes],
                !.mud.crypto.recv_time = t]

(***************************************************************************)
(* Receive entry point                                                      *)
(***************************************************************************)
\* mud_localaddr: the first pktinfo of the family's level among the
\* ancillary data; ok = FALSE stands for the return of 1.
RECURSIVE CmsgFind(_, _, _)
CmsgFind(cmsgs, level, i) ==
    IF i > Len(cmsgs) THEN 0
    ELSE IF cmsgs[i].level = level /\ cmsgs[i].type = "PKTINFO" THEN i
    ELSE CmsgFind(cmsgs, level, i + 1)

mud_localaddr(cmsgs, family) ==
    LET level == IF family = AF_INET6 THEN IPPROTO_IPV6 ELSE IPPROTO_IP
        c == CmsgFind(cmsgs, level, 1)
    IN  IF c = 0 THEN [ok |-> FALSE, ipaddr |-> NoIp]
        ELSE [ok |-> TRUE, ipaddr |-> [family |-> family, ip |-> cmsgs[c].ip]]

\* mud_recv from the update of the timing samples on: the packet is on
\* path i of st.mud.  [mud, ret, out, data, rand].
RecvOnPath(st, i, pkt, send_time, mud_packet, dst_size, t, fail, r) ==
    LET p0 == st.mud.path[i]
        p1 == IF p0.rdt # 0
              THEN [p0 EXCEPT !.rdt = Ewma(SubU64(t, p0.recv_time), p0.rdt),
                              !.sdt = Ewma(SubU64(send_time, p0.rst), p0.sdt)]
              ELSE IF p0.recv_time # 0
              THEN [p0 EXCEPT !.rdt = SubU64(t, p0.recv_time),
                              !.sdt = SubU64(send_time, p0.rst)]
              ELSE p0
        p2 == [p1 EXCEPT !.rst = send_time]
        s2 == [st EXCEPT !.mud.path[i] = p2]
        pong == (p2.bak.local = 0) /\ (p2.recv_time # 0)
                /\ mud_timeout(t, p2.pong_time, MUD_PONG_TIMEOUT)
        s3 == IF pong
              THEN [mud_ctrl_path(s2, mud_pong, i, t, fail)
                        EXCEPT !.mud.path[i].pong_time = t]
              ELSE s2
        s4 == [s3 EXCEPT !.mud.path[i].recv_time = t]
        active == s4.mud.path[i].active
        ctl(s) == [mud |-> s.mud, ret |-> 0, out |-> s.out, data |-> <<>>, rand |-> 0]
    IN  IF mud_packet
        THEN IF pkt.size = MUD_KEYX_SIZE
             THEN ctl(mud_recv_keyx(s4, i, t, pkt.data, fail))
             ELSE IF pkt.size = MUD_MTUX_SIZE
             THEN LET s5 == [s4 EXCEPT !.mud.mtu.remote = ToInt(pkt.data[1])] IN
                  ctl(IF active = 0 THEN mud_ctrl_path(s5, mud_mtux, i, t, fail) ELSE s5)
             ELSE IF pkt.size = MUD_PONG_SIZE
             THEN ctl([s4 EXCEPT !.mud.path[i].r_sdt = pkt.data[1],
                                 !.mud.path[i].r_rdt = pkt.data[2],
                                 !.mud.path[i].r_rst = pkt.data[3],
                                 !.mud.path[i].r_dt = I64(send_time - pkt.data[3]),
                                 !.mud.path[i].rtt = SubU64(t, pkt.data[3])])
             ELSE IF pkt.size = MUD_BAKX_SIZE
             THEN LET s5 == [s4 EXCEPT !.mud.path[i].bak.local = 1,
                                       !.mud.path[i].bak.remote = pkt.data[1]] IN
                  ctl(IF active = 0 THEN mud_ctrl_path(s5, mud_bakx, i, t, fail) ELSE s5)
             ELSE ctl(s4)
        ELSE LET d == mud_decrypt(s4.mud, dst_size, pkt, r) IN
             IF d.ret = 0 - 1
             THEN [mud |-> [d.mud EXCEPT !.crypto.bad_key = 1], ret |-> 0,
                   out |-> s4.out, data |-> <<>>, rand |-> d.rand]
             ELSE [mud |-> d.mud, ret |-> d.ret, out |-> s4.out,
                   data |-> d.data, rand |-> d.rand]

\* mud_recv of packet pkt from addr with ancillary data cmsgs into a buffer
\* of dst_size bytes at time t.  pkt.size = -1 stands for a failed recvmsg.
mud_recv(m, pkt, addr, cmsgs, dst_size, t, fail, r, mem) ==
    LET drop(ret) == [mud |-> m, ret |-> ret, out |-> <<>>, data |-> <<>>, rand |-> 0]
        mud_packet == (pkt.hdr = 0)
        send_time == IF mud_packet THEN pkt.time ELSE pkt.hdr
        a == mud_unmapv4(addr)
        l == mud_localaddr(cmsgs, a.family)
        p == mud_path(m.path, l.ipaddr, a, IF mud_packet THEN 1 ELSE 0, mem)
    IN  IF pkt.size <= MUD_PACKET_MIN_SIZE
        THEN drop(IF pkt.size = 0 - 1 THEN 0 - 1 ELSE 0)
        ELSE IF mud_packet /\ pkt.size < MUD_PACKET_SIZEOF(MUD_U48_SIZE) THEN drop(0)
        ELSE IF mud_abs_diff(t, send_time) >= m.time_tolerance THEN drop(0)
        ELSE IF mud_packet /\ mud_decrypt_opt(m.crypto.private, pkt) # 0 THEN drop(0)
        ELSE IF ~l.ok THEN drop(0)
        ELSE IF p.idx = 0 THEN drop(0)
        ELSE RecvOnPath([mud |-> [m EXCEPT !.path = p.paths], out |-> <<>>],
                        p.idx, pkt, send_time, mud_packet, dst_size, t, fail, r)

(***************************************************************************)
(* Control tick                                                             *)
(***************************************************************************)
\* The loop of mud_send_ctrl from path i on: the new st.
RECURSIVE SendCtrlLoop(_, _, _, _)
SendCtrlLoop(st, i, t, fail) ==
    IF i > Len(st.mud.path) THEN st
    ELSE LET m == st.mud
             path == m.path[i]
         IN  IF path.active = 0
             THEN IF (m.crypto.bad_key # 0)
                     /\ mud_timeout(t, m.crypto.send_time, m.send_timeout)
                  THEN SendCtrlLoop([mud_ctrl_path(st, mud_keyx, i, t, fail)
                                        EXCEPT !.mud.crypto.send_time = t,
                                               !.mud.crypto.bad_key = 0],
                                    i + 1, t, fail)
                  ELSE SendCtrlLoop(st, i + 1, t, fail)
             ELSE IF mud_timeout(t, m.crypto.send_time, m.send_timeout)
                     /\ mud_timeout(t, m.crypto.recv_time, MUD_KEYX_TIMEOUT)
             THEN SendCtrlLoop([mud_ctrl_path(st, mud_keyx, i, t, fail)
                                   EXCEPT !.mud.crypto.send_time = t],
                               i + 1, t, fail)
             ELSE IF (m.mtu.remote = 0)
                     /\ mud_timeout(t, m.mtu.send_time, m.send_timeout)
             THEN SendCtrlLoop([mud_ctrl_path(st, mud_mtux, i, t, fail)
                                   EXCEPT !.mud.mtu.send_time = t],
                               i + 1, t, fail)
             ELSE IF (path.bak.local # 0 /\ path.bak.remote = 0)
                     /\ mud_timeout(t, path.bak.send_time, m.send_timeout)
             THEN SendCtrlLoop([mud_ctrl_path(st, mud_bakx, i, t, fail)
                                   EXCEPT !.mud.path[i].bak.send_time = t],
                               i + 1, t, fail)
             ELSE IF path.send_time = 0
             THEN SendCtrlLoop(mud_ctrl_path(st, mud_ping, i, t, fail), i + 1, t, fail)
             ELSE SendCtrlLoop(st, i + 1, t, fail)

\* mud_send_ctrl: [mud, out].
mud_send_ctrl(m, t, fail) == SendCtrlLoop([mud |-> m, out |-> <<>>], 1, t, fail)

(***************************************************************************)
(* Egress selector                                                          *)
(***************************************************************************)
PathLimit_norate(path, t) == I64(path.rtt \div 2)

\* The virtual deadline of a path at time t (int64_t limit of the loop).
PathLimit(path, t) ==
    LET elapsed == SubU64(t, path.send_time) IN
    IF U64(path.limit) > elapsed
    THEN I64(path.limit + path.rtt \div 2 - elapsed)
    ELSE I64(path.rtt \div 2)

\* The first loop of mud_send from path i on: [st, path_min, limit_min],
\* path_min = 0 standing for NULL.
RECURSIVE SendLoop(_, _, _, _, _, _, _, _, _)
SendLoop(st, i, path_min, limit_min, t, pkt, size, tc, fail) ==
    IF i > Len(st.mud.path)
    THEN [st |-> st, path_min |-> path_min, limit_min |-> limit_min]
    ELSE LET path == st.mud.path[i]
             limit == PathLimit(path, t)
         IN  IF path.bak.local # 0
             THEN SendLoop(st, i + 1, path_min, limit_min, t, pkt, size, tc, fail)
             ELSE IF mud_timeout(t, path.recv_time, st.mud.send_timeout)
             THEN SendLoop([mud_send_path(st, i, t, "data", pkt, size, tc, fail).st
                               EXCEPT !.mud.path[i].limit = U64(limit)],
                           i + 1, path_min, limit_min, t, pkt, size, tc, fail)
             ELSE IF limit_min > limit
             THEN SendLoop(st, i + 1, i, limit, t, pkt, size, tc, fail)
             ELSE SendLoop(st, i + 1, path_min, limit_min, t, pkt, size, tc, fail)

FirstBackup_any(paths, i) == IF i > Len(paths) THEN 0 ELSE i

\* The second loop of mud_send: the first path with bak.local, 0 for none.
RECURSIVE FirstBackup(_, _)
FirstBackup(paths, i) ==
    IF i > Len(paths) THEN 0
    ELSE IF paths[i].bak.local # 0 THEN i
    ELSE FirstBackup(paths, i + 1)

\* size > (size_t)mud_get_mtu(mud)
ExceedsMtu(m, size) == size > U64(mud_get_mtu(m))

\* mud_send of the plaintext data of size bytes at time t:
\* [mud, ret, out, errno].
mud_send(m, data, size, tc, t, fail) ==
    LET st0 == mud_send_ctrl(m, t, fail)
        e == mud_encrypt(st0.mud, t, SEND_PACKET_SIZE, data, size)
        lo == SendLoop(st0, 1, 0, INT64_MAX, t, e.pkt, e.size, tc, fail)
        path_min == IF lo.path_min # 0 THEN lo.path_min
                    ELSE FirstBackup(lo.st.mud.path, 1)
        sp == mud_send_path(lo.st, path_min, t, "data", e.pkt, e.size, tc, fail)
    IN  IF size = 0
        THEN [mud |-> st0.mud, ret |-> 0, out |-> st0.out, errno |-> "none"]
        ELSE IF ExceedsMtu(st0.mud, size)
        THEN [mud |-> st0.mud, ret |-> 0 - 1, out |-> st0.out, errno |-> "EMSGSIZE"]
        ELSE IF e.size = 0
        THEN [mud |-> st0.mud, ret |-> 0 - 1, out |-> st0.out, errno |-> "EINVAL"]
        ELSE IF path_min = 0
        THEN [mud |-> lo.st.mud, ret |-> 0, out |-> lo.st.out, errno |-> "none"]
        ELSE IF sp.ret = e.size
        THEN [mud |-> [sp.st.mud EXCEPT !.path[path_min].limit = U64(lo.limit_min)],
              ret |-> sp.ret, out |-> sp.st.out, errno |-> "none"]
        ELSE [mud |-> sp.st.mud, ret |-> sp.ret, out |-> sp.st.out, errno |-> "none"]


(***************************************************************************)
(* Bounds and inputs                                                        *)
(***************************************************************************)
\* How many times the clock advances, and how many entry points are called
\* in a run of each specification.
MaxAdvance == 1
MaxOps == 3
MaxPathOps == 3
MaxSendOps == 4
MaxMtuOps == 4
MaxNetOps == 5
MaxBakOps == 6
MaxKeyOps == 5
MaxTrain == 22
MaxTickOps == 4
MaxPongOps == 4
MaxKeyxOps == 4
MaxBakxOps == 4
MaxInvOps == 3
MaxCrossOps == 11

\* The clock at the start, past the time tolerance.
T0 == 1000000

Endpoints == {"A", "B"}

\* The long-term key the endpoints share, and another one.
Psk == <<1>>
OtherKey == <<2>>

\* The traffic class of the sends, the plaintext, its size, and the size
\* of the buffer mud_recv is given.
Tc == 46
Plain == <<170>>
PlainSize == 64
RecvSize == MUD_PACKET_MAX_SIZE

\* The port every endpoint binds.
BindPort == 5000

NoPkt == [hdr |-> 0, time |-> 0, size |-> 0, data |-> <<>>, key |-> <<>>, cipher |-> "none"]

\* What last records of a call: the entry point, the endpoint, the
\* arguments, the value returned, errno, the sendmsg calls made and the
\* plaintext handed back.
NoArg == [name |-> "", host |-> "", port |-> 0, backup |-> 0, pkt |-> NoPkt,
          addr |-> NoAddr, cmsgs |-> <<>>, size |-> 0, fail |-> {}, mem |-> TRUE]
NoCall == [op |-> "none", e |-> "A", arg |-> NoArg, ret |-> 0, errno |-> "none",
           out |-> <<>>, data |-> <<>>]

\* A socket address and the pktinfo of a local address.
SockAddr(family, ip, port) == [family |-> family, ip |-> ip, port |-> port]
PktInfo(level, ip) == <<[level |-> level, type |-> "PKTINFO", ip |-> ip]>>

\* A control packet as the peer builds it: msg at time t with payload data,
\* authenticated under key.
CtrlPkt(msg, t, data, key) ==
    [hdr |-> 0, time |-> t,
     size |-> CtrlDataSize(msg) + 2 * MUD_U48_SIZE + MUD_MAC_SIZE,
     data |-> data, key |-> key, cipher |-> "chacha20poly1305"]

\* A data frame as the peer builds it.
DataPkt(t, size, key) ==
    [hdr |-> t, time |-> 0, size |-> size + MUD_PACKET_MIN_SIZE,
     data |-> Plain, key |-> key, cipher |-> "chacha20poly1305"]

\* The send time mud_recv reads in a packet.
SendTime(pkt) == IF pkt.hdr = 0 THEN pkt.time ELSE pkt.hdr

\* The entries of the sendmsg calls out that carry the data frame, and the
\* paths they went to.
Range(s) == {s[i] : i \in 1..Len(s)}
DataOut(out) == {o \in Range(out) : o.msg = "data"}
DataTo(out) == {o.idx : o \in DataOut(out)}

\* The datagrams the successful sendmsg calls of endpoint e put on the
\* wire: each reaches the endpoint that owns the destination address, with
\* the source address of the path and the bound port of the sender.
Owner(ip) ==
    CASE ip = <<10, 0, 0, 1>> -> "A"
      [] ip = <<10, 0, 0, 2>> -> "B"
      [] OTHER -> "none"

Wire(out) ==
    {[dst |-> Owner(o.to.ip),
      from |-> SockAddr(o.local.family, o.local.ip, BindPort),
      local |-> o.to.ip,
      pkt |-> o.pkt] :
        o \in {x \in Range(out) : x.ok /\ x.to.port = BindPort /\ Owner(x.to.ip) # "none"}}

(***************************************************************************)
(* Actions.  e is the endpoint whose entry point is called.                 *)
(***************************************************************************)
Paths(e) == mud[e].path

\* mud_peer(name, host, port, backup)
Peer(e, Names, Hosts, Ports, Backups, Mems) ==
    \E name \in Names, host \in Hosts, port \in Ports, backup \in Backups, mem \in Mems :
        LET r == mud_peer(mud[e], name, host, port, backup, mem) IN
        /\ mud' = [mud EXCEPT ![e] = r.mud]
        /\ last' = [NoCall EXCEPT !.op = "peer", !.e = e, !.ret = r.ret,
                                  !.arg.name = name, !.arg.host = host,
                                  !.arg.port = port, !.arg.backup = backup,
                                  !.arg.mem = mem]
        /\ ops' = ops + 1
        /\ UNCHANGED <<net, now, adv, rand>>

\* mud_recv of a packet the environment hands to the socket of e.
Recv(e, Pkts, Addrs, Cmsgs, Fails, Mems) ==
    \E pkt \in Pkts, addr \in Addrs, cmsgs \in Cmsgs, fail \in Fails, mem \in Mems :
        LET r == mud_recv(mud[e], pkt, addr, cmsgs, RecvSize, now, fail, rand + 1, mem) IN
        /\ mud' = [mud EXCEPT ![e] = r.mud]
        /\ rand' = rand + r.rand
        /\ last' = [NoCall EXCEPT !.op = "recv", !.e = e, !.ret = r.ret,
                                  !.out = r.out, !.data = r.data,
                                  !.arg.pkt = pkt, !.arg.addr = addr,
                                  !.arg.cmsgs = cmsgs, !.arg.fail = fail,
                                  !.arg.mem = mem]
        /\ ops' = ops + 1
        /\ UNCHANGED <<net, now, adv>>

\* mud_recv of a datagram in flight to e; its replies go on the wire.
Deliver(e) ==
    \E d \in net :
        LET cmsgs == PktInfo(IPPROTO_IP, d.local)
            r == mud_recv(mud[e], d.pkt, d.from, cmsgs, RecvSize, now, {}, rand + 1, TRUE)
        IN
        /\ d.dst = e
        /\ mud' = [mud EXCEPT ![e] = r.mud]
        /\ rand' = rand + r.rand
        /\ net' = (net \ {d}) \cup Wire(r.out)
        /\ last' = [NoCall EXCEPT !.op = "recv", !.e = e, !.ret = r.ret,
                                  !.out = r.out, !.data = r.data,
                                  !.arg.pkt = d.pkt, !.arg.addr = d.from,
                                  !.arg.cmsgs = cmsgs]
        /\ ops' = ops + 1
        /\ UNCHANGED <<now, adv>>

\* mud_send(data, size, tc); wire says whether the datagrams reach a peer
\* of the model.
Send(e, Sizes, Fails, wire) ==
    \E size \in Sizes, fail \in Fails :
        LET r == mud_send(mud[e], Plain, size, Tc, now, fail) IN
        /\ mud' = [mud EXCEPT ![e] = r.mud]
        /\ net' = IF wire THEN net \cup Wire(r.out) ELSE net
        /\ last' = [NoCall EXCEPT !.op = "send", !.e = e, !.ret = r.ret,
                                  !.errno = r.errno, !.out = r.out,
                                  !.arg.size = size, !.arg.fail = fail]
        /\ ops' = ops + 1
        /\ UNCHANGED <<now, adv, rand>>

\* mud_send_ctrl()
SendCtrl(e, Fails, wire) ==
    \E fail \in Fails :
        LET r == mud_send_ctrl(mud[e], now, fail) IN
        /\ mud' = [mud EXCEPT ![e] = r.mud]
        /\ net' = IF wire THEN net \cup Wire(r.out) ELSE net
        /\ last' = [NoCall EXCEPT !.op = "ctrl", !.e = e, !.out = r.out,
                                  !.arg.fail = fail]
        /\ ops' = ops + 1
        /\ UNCHANGED <<now, adv, rand>>

\* The clock advances by d.
Advance(Deltas) ==
    \E d \in Deltas :
        /\ adv < MaxAdvance
        /\ now' = now + d
        /\ adv' = adv + 1
        /\ last' = [NoCall EXCEPT !.op = "advance"]
        /\ UNCHANGED <<mud, net, rand, ops>>

\* A step that is a call of entry point op.
Called(op) == (ops' # ops) /\ (last'.op = op)

(***************************************************************************)
(* Spec: the receive path of one engine, A.  A configures one peer;        *)
(* packets of every kind, timely and not, authentic and not, arrive from   *)
(* it and from another address; A ticks; time passes.                       *)
(***************************************************************************)
Init ==
    /\ mud = [e \in Endpoints |->
                mud_create(0, 1450, Psk, IF e = "A" THEN 1 ELSE 2)]
    /\ net = {}
    /\ now = T0
    /\ adv = 0
    /\ rand = 2
    /\ ops = 0
    /\ last = NoCall

\* The two remote socket addresses packets come from.
Peer1 == SockAddr(AF_INET, <<10, 0, 0, 2>>, 5000)
Peer2 == SockAddr(AF_INET, <<10, 0, 0, 2>>, 5001)

\* The send times the environment writes in a packet: the present, and the
\* two ends of the replay window.
PktTimes == {now, now - mud["A"].time_tolerance, now + mud["A"].time_tolerance}

\* The payload of the control packets handed to A.  A pong reports the
\* send time of a packet of A the peer received 20 ms ago.
CtrlPayload(msg) ==
    CASE msg = mud_pong -> <<0, 0, now - 20>>
      [] msg = mud_keyx -> <<9, 0, 0, 0>>
      [] msg = mud_mtux -> <<500>>
      [] msg = mud_bakx -> <<1>>
      [] OTHER -> <<>>

CtrlMsgs == {mud_ping, mud_pong, mud_keyx, mud_mtux, mud_bakx}

EnginePkts ==
    {CtrlPkt(msg, t, CtrlPayload(msg), Psk) : msg \in CtrlMsgs, t \in PktTimes}
    \cup {DataPkt(t, PlainSize, Psk) : t \in PktTimes}
    \cup {CtrlPkt(mud_ping, now, <<>>, OtherKey), DataPkt(now, PlainSize, OtherKey)}

EngineCmsgs == {PktInfo(IPPROTO_IP, <<10, 0, 0, 1>>)}

RxPeer == ops < MaxOps /\ Peer("A", {"10.0.0.1"}, {"10.0.0.2"}, {5000}, {0}, {TRUE})
RxRecv == ops < MaxOps /\ Recv("A", EnginePkts, {Peer1, Peer2}, EngineCmsgs, {{}}, {TRUE})
RxCtrl == ops < MaxOps /\ SendCtrl("A", {{}}, FALSE)
RxAdvance == ops < MaxOps /\ Advance({1000})

Next == RxPeer \/ RxRecv \/ RxCtrl \/ RxAdvance

Spec == Init /\ [][Next]_vars

\* C1 (replay window): a call of mud_recv on a packet, data or control,
\* whose send time is time_tolerance or more away from the clock, before or
\* after it, returns 0, leaves the whole engine as it was (path list, path
\* fields, key ring, bad_key, mtu) and makes no sendmsg call.
C1_ReplayWindow ==
    [][(Called("recv")
        /\ \/ now - SendTime(last'.arg.pkt) >= mud[last'.e].time_tolerance
           \/ SendTime(last'.arg.pkt) - now >= mud[last'.e].time_tolerance)
       => (mud' = mud /\ last'.ret = 0 /\ last'.out = <<>> /\ rand' = rand)]_vars

\* A reached: mud_recv has just dropped an authentic packet from the future
\* that came on a path which has already received.
C1_Witness ==
    /\ last.op = "recv"
    /\ last.arg.pkt.key = Psk
    /\ SendTime(last.arg.pkt) >= now + mud["A"].time_tolerance
    /\ last.ret = 0
    /\ \E i \in 1..Len(Paths("A")) :
          /\ Paths("A")[i].addr = last.arg.addr
          /\ Paths("A")[i].recv_time > 0

(***************************************************************************)
(* SpecPath: the path table.  A configures peers given as IPv4, IPv6 and   *)
(* IPv4-mapped literals on several local addresses and ports, calloc may    *)
(* fail, and pings arrive from the same addresses in both forms.            *)
(***************************************************************************)
PathNames == {"10.0.0.1", "10.0.0.3", "2001:db8::1"}
PathHosts == {"10.0.0.2", "::ffff:10.0.0.2", "10.0.0.4", "2001:db8::2"}
PathPorts == {5000, 5001}

\* The form ::ffff:a.b.c.d of an IPv4 socket address.
Mapped(addr) ==
    SockAddr(AF_INET6, <<0, 0, 0, 0, 0, 0, 0, 0, 0, 0, 255, 255>> \o addr.ip, addr.port)

PathAddrs ==
    {Peer1, Peer2, Mapped(Peer1), SockAddr(AF_INET6, inet_pton6("2001:db8::2"), 5000)}

PathCmsgs ==
    {PktInfo(IPPROTO_IP, <<10, 0, 0, 1>>), PktInfo(IPPROTO_IPV6, inet_pton6("2001:db8::1"))}

PathPkts == {CtrlPkt(mud_ping, now, <<>>, Psk), DataPkt(now, PlainSize, Psk)}

PathPeer == ops < MaxPathOps /\ Peer("A", PathNames, PathHosts, PathPorts, {0}, BOOLEAN)
PathRecv == ops < MaxPathOps /\ Recv("A", PathPkts, PathAddrs, PathCmsgs, {{}}, BOOLEAN)

NextPath == PathPeer \/ PathRecv

SpecPath == Init /\ [][NextPath]_vars

\* The key of a path, and the keys a lookup may be asked for.
PathKey(path) == <<path.local_addr, path.addr>>
LocalAddrs == {mud_ipaddrinfo(n).ipaddr : n \in PathNames}
RemoteAddrs == {mud_unmapv4(mud_addrinfo(h, p).addr) : h \in PathHosts, p \in PathPorts}

\* C6 (path discrimination and uniqueness): no two entries of the path
\* list have the same (local address, remote socket address), and a lookup
\* finds for a key only the entry with exactly that local address, remote
\* address and remote port, so that keys that differ in any of the three
\* never resolve to the same entry; a call of mud_peer that succeeds leaves
\* an entry with the key it was given.
C6_PathDiscrimination ==
    /\ \A i, j \in 1..Len(Paths("A")) :
          PathKey(Paths("A")[i]) = PathKey(Paths("A")[j]) => i = j
    /\ \A l \in LocalAddrs, a \in RemoteAddrs :
          LET i == mud_path(Paths("A"), l, a, 0, TRUE).idx IN
          /\ i # 0 => PathKey(Paths("A")[i]) = <<l, a>>
          /\ i = 0 => \A k \in 1..Len(Paths("A")) : PathKey(Paths("A")[k]) # <<l, a>>
    /\ (last.op = "peer" /\ last.ret = 0)
          => \E i \in 1..Len(Paths("A")) :
                PathKey(Paths("A")[i]) =
                    <<mud_ipaddrinfo(last.arg.name).ipaddr,
                      mud_unmapv4(mud_addrinfo(last.arg.host, last.arg.port).addr)>>

\* A reached: three entries, two that differ only in the local address and
\* two that differ only in the remote port.
C6_Witness ==
    /\ Len(Paths("A")) = 3
    /\ \E i, j \in 1..3 :
          /\ Paths("A")[i].addr = Paths("A")[j].addr
          /\ Paths("A")[i].local_addr # Paths("A")[j].local_addr
    /\ \E i, j \in 1..3 :
          /\ Paths("A")[i].local_addr = Paths("A")[j].local_addr
          /\ Paths("A")[i].addr.ip = Paths("A")[j].addr.ip
          /\ Paths("A")[i].addr.port # Paths("A")[j].addr.port

\* C7 (IPv4-mapped normalization): in every state, mud_peer given the
\* host ::ffff:10.0.0.2 and mud_peer given 10.0.0.2, with the same local
\* address, port and backup flag, have the same result and leave the same
\* path list, and so do mud_recv of a packet from ::ffff:10.0.0.2 port p and
\* mud_recv of that packet from 10.0.0.2 port p with the same ancillary
\* data; no entry of the path list holds an IPv4-mapped remote address.
C7_MappedNormalization ==
    /\ \A name \in PathNames, port \in PathPorts, backup \in {0, 1}, mem \in BOOLEAN :
          mud_peer(mud["A"], name, "::ffff:10.0.0.2", port, backup, mem)
              = mud_peer(mud["A"], name, "10.0.0.2", port, backup, mem)
    /\ \A pkt \in PathPkts, addr \in {Peer1, Peer2}, cmsgs \in PathCmsgs, mem \in BOOLEAN :
          mud_recv(mud["A"], pkt, Mapped(addr), cmsgs, RecvSize, now, {}, rand + 1, mem)
              = mud_recv(mud["A"], pkt, addr, cmsgs, RecvSize, now, {}, rand + 1, mem)
    /\ \A i \in 1..Len(Paths("A")) :
          Paths("A")[i].addr.family = AF_INET6
              => ~IN6_IS_ADDR_V4MAPPED(Paths("A")[i].addr.ip)

\* A reached: the single entry 10.0.0.2:5000 has received a packet, and
\* mud_peer, given the mapped literal, has resolved to that same entry.
C7_Witness ==
    /\ last.op = "peer"
    /\ last.arg.host = "::ffff:10.0.0.2"
    /\ last.arg.port = 5000
    /\ last.ret = 0
    /\ Len(Paths("A")) = 1
    /\ Paths("A")[1].addr = Peer1
    /\ Paths("A")[1].active = 1
    /\ Paths("A")[1].recv_time > 0

(***************************************************************************)
(* SpecSend: the egress selector.  A starts with its two peers configured, *)
(* each backup or not; pings and pongs arrive from them, A reconfigures     *)
(* them, A sends, sendmsg may fail on a path, time passes.                  *)
(***************************************************************************)
\* The engine after mud_create and the two calls of mud_peer.
Configured(b1, b2) ==
    mud_peer(mud_peer(mud_create(0, 1450, Psk, 1),
                      "10.0.0.1", "10.0.0.2", 5000, b1, TRUE).mud,
             "10.0.0.1", "10.0.0.2", 5001, b2, TRUE).mud

InitSend ==
    /\ \E b1, b2 \in {0, 1} :
          mud = [e \in Endpoints |->
                    IF e = "A" THEN Configured(b1, b2) ELSE mud_create(0, 1450, Psk, 2)]
    /\ net = {}
    /\ now = T0
    /\ adv = 0
    /\ rand = 2
    /\ ops = 0
    /\ last = NoCall

\* The peer at port 5000 is 20 ms away and the peer at port 5001 200 ms:
\* a pong reports the send time of a packet of A received rtt ago.
Rtt(addr) == IF addr = Peer1 THEN 20 ELSE 200
Pong(addr) == CtrlPkt(mud_pong, now, <<0, 0, now - Rtt(addr)>>, Psk)
Ping == CtrlPkt(mud_ping, now, <<>>, Psk)

TxPeer == ops < MaxSendOps /\ Peer("A", {"10.0.0.1"}, {"10.0.0.2"}, {5000, 5001}, {0, 1}, {TRUE})
TxRecv ==
    /\ ops < MaxSendOps
    /\ \E addr \in {Peer1, Peer2} :
          Recv("A", {Ping, Pong(addr)}, {addr}, EngineCmsgs, {{}}, {TRUE})
TxSend == ops < MaxSendOps /\ Send("A", {PlainSize}, {{}, {1}, {2}}, FALSE)
TxAdvance == ops < MaxSendOps /\ Advance({1, 1000})

NextSend == TxPeer \/ TxRecv \/ TxSend \/ TxAdvance

SpecSend == InitSend /\ [][NextSend]_vars

\* The paths of engine m that are not backup, those of them that have not
\* received within send_timeout at time t, and the others.
NonBackup(m) == {i \in 1..Len(m.path) : m.path[i].bak.local = 0}
Stale(m, t) == {i \in NonBackup(m) : mud_timeout(t, m.path[i].recv_time, m.send_timeout)}
Fresh(m, t) == NonBackup(m) \ Stale(m, t)

\* The engine of A when the selection of this call of mud_send starts:
\* after the control tick the call runs first.
Ticked == mud_send_ctrl(mud["A"], now, last'.arg.fail).mud

\* C4 (backup preference), as claimed: in a call of mud_send, if a path
\* with bak.local = 0 has recv_time > 0 and now - recv_time < send_timeout,
\* no sendmsg of the data frame goes to a path with bak.local set.
C4_BackupPreference ==
    [][(Called("send")
        /\ \E i \in 1..Len(Paths("A")) :
              /\ Paths("A")[i].bak.local = 0
              /\ Paths("A")[i].recv_time > 0
              /\ SubU64(now, Paths("A")[i].recv_time) < mud["A"].send_timeout)
       => \A o \in DataOut(last'.out) : Paths("A")[o.idx].bak.local = 0]_vars

\* The two paths of scenario S3, as indices of the path list of engine m.
PathOf(m, addr) == CHOOSE i \in 1..Len(m.path) : m.path[i].addr = addr

\* Two fresh non-backup paths, P1 (rtt 20 ms) and P2 (rtt 200 ms), both
\* with limit 0.
S3Pre ==
    /\ Len(Paths("A")) = 2
    /\ \A i \in 1..2 :
          /\ Paths("A")[i].addr \in {Peer1, Peer2}
          /\ Paths("A")[i].rtt = Rtt(Paths("A")[i].addr)
          /\ Paths("A")[i].limit = 0
    /\ Fresh(mud["A"], now) = {1, 2}

\* The frame size mud_send returns for the plaintext.
FrameSize == PlainSize + MUD_PACKET_MIN_SIZE

C9_StaleProbing ==
    [][Called("send") =>
        LET m == Ticked
            to == DataTo(last'.out)
        IN  /\ Stale(m, now) \subseteq to
            /\ \A i \in Stale(m, now) :
                  /\ mud'["A"].path[i].limit = U64(PathLimit(m.path[i], now))
                  /\ mud'["A"].path[i].send_time = now
            /\ Fresh(m, now) # {} =>
                  \E i \in Fresh(m, now) :
                     /\ to \cap Fresh(m, now) = {i}
                     /\ \A j \in Fresh(m, now) :
                           PathLimit(m.path[i], now) <= PathLimit(m.path[j], now)]_vars

\* C10 (send result), as claimed: a call of mud_send in which a sendmsg of
\* the data frame succeeded on some path returns the frame size.
C10_SendResult ==
    (last.op = "send" /\ \E o \in DataOut(last.out) : o.ok)
        => last.ret = FrameSize

(***************************************************************************)
(* SpecMtu: the MTU.  A configures one peer; it and another address        *)
(* announce their MTU; A sends payloads below and above it.                 *)
(***************************************************************************)
\* The MTUs the peer announces: 500, and the 48-bit integer of all ones.
MtuxPkts == {CtrlPkt(mud_mtux, now, <<v>>, Psk) : v \in {500, mud_write48(0 - 1)}}

MtuPeer == ops < MaxMtuOps /\ Peer("A", {"10.0.0.1"}, {"10.0.0.2"}, {5000}, {0}, {TRUE})
MtuRecv == ops < MaxMtuOps /\ Recv("A", MtuxPkts, {Peer1, Peer2}, EngineCmsgs, {{}}, {TRUE})
MtuSend == ops < MaxMtuOps /\ Send("A", {PlainSize, 501, 1451}, {{}}, FALSE)
MtuAdvance == ops < MaxMtuOps /\ Advance({1000})

NextMtu == MtuPeer \/ MtuRecv \/ MtuSend \/ MtuAdvance

SpecMtu == Init /\ [][NextMtu]_vars

\* C5 (MTU ceiling), as claimed: a call of mud_send with a size greater
\* than mud_get_mtu() returns -1 with errno EMSGSIZE, makes no sendmsg call
\* of any kind, and leaves the send_time and the limit of every path.
C5_MtuCeiling ==
    [][(Called("send") /\ last'.arg.size > mud_get_mtu(mud["A"]))
       => /\ last'.ret = 0 - 1
          /\ last'.errno = "EMSGSIZE"
          /\ last'.out = <<>>
          /\ \A i \in 1..Len(Paths("A")) :
                /\ mud'["A"].path[i].send_time = Paths("A")[i].send_time
                /\ mud'["A"].path[i].limit = Paths("A")[i].limit]_vars

(***************************************************************************)
(* SpecNet: two engines, A (10.0.0.1) and B (10.0.0.2), that share the     *)
(* long-term key and are each configured with the other as peer.  Each      *)
(* ticks and sends; a datagram sent is in flight until it is delivered.     *)
(***************************************************************************)
IpOf(e) == IF e = "A" THEN <<10, 0, 0, 1>> ELSE <<10, 0, 0, 2>>
NameOf(e) == IF e = "A" THEN "10.0.0.1" ELSE "10.0.0.2"
Other(e) == IF e = "A" THEN "B" ELSE "A"

InitNet ==
    /\ mud = [e \in Endpoints |->
                mud_peer(mud_create(0, 1450, Psk, IF e = "A" THEN 1 ELSE 2),
                         NameOf(e), NameOf(Other(e)), BindPort, 0, TRUE).mud]
    /\ net = {}
    /\ now = T0
    /\ adv = 0
    /\ rand = 2
    /\ ops = 0
    /\ last = NoCall

NetCtrl(e) == ops < MaxNetOps /\ SendCtrl(e, {{}}, TRUE)
NetSend(e) == ops < MaxNetOps /\ Send(e, {PlainSize}, {{}}, TRUE)
NetDeliver(e) == ops < MaxNetOps /\ Deliver(e)
NetAdvance == ops < MaxNetOps /\ Advance({1000})

NextNet ==
    \/ NetCtrl("A")
    \/ NetCtrl("B")
    \/ NetSend("A")
    \/ NetSend("B")
    \/ NetDeliver("A")
    \/ NetDeliver("B")
    \/ NetAdvance

SpecNet == InitNet /\ [][NextNet]_vars

\* Endpoints r and s have completed a key exchange: each holds the
\* public.send of the other in its public.recv.
Completed(r, s) ==
    /\ mud[r].crypto.public.recv = mud[s].crypto.public.send
    /\ mud[s].crypto.public.recv = mud[r].crypto.public.send

\* C2 (keyx promotion): when r and s have completed a key exchange and r
\* receives a timely data frame that s sealed under its next slot, mud_recv
\* returns the size of the plaintext and the plaintext, and afterwards the
\* ring of r has last = its previous current, current = its previous next,
\* use_next = 0, a new public.send and public.recv cleared.
C2_KeyxPromotion ==
    [][(Called("recv")
        /\ Completed(last'.e, Other(last'.e))
        /\ last'.arg.pkt.hdr # 0
        /\ now - last'.arg.pkt.hdr < mud[last'.e].time_tolerance
        /\ last'.arg.pkt.hdr - now < mud[last'.e].time_tolerance
        /\ last'.arg.pkt.key = mud[Other(last'.e)].crypto.next.encrypt
        /\ last'.arg.pkt.cipher = SlotCipher(mud[Other(last'.e)].crypto.next))
       => LET r == last'.e IN
          /\ last'.ret = last'.arg.pkt.size - MUD_PACKET_MIN_SIZE
          /\ last'.data = last'.arg.pkt.data
          /\ mud'[r].crypto.last = mud[r].crypto.current
          /\ mud'[r].crypto.current = mud[r].crypto.next
          /\ mud'[r].crypto.use_next = 0
          /\ mud'[r].crypto.public.send # mud[r].crypto.public.send
          /\ mud'[r].crypto.public.recv = ZeroPub]_vars

\* A reached: an endpoint has just received a data frame sealed under the
\* exchanged key and promoted: current opens the frame, last is the slot of
\* the long-term key, the keypair is new.
C2_Witness ==
    /\ last.op = "recv"
    /\ last.ret = PlainSize
    /\ last.data = Plain
    /\ mud[last.e].crypto.current.decrypt = last.arg.pkt.key
    /\ mud[last.e].crypto.current # KeySlot(Psk)
    /\ mud[last.e].crypto.last = KeySlot(Psk)
    /\ mud[last.e].crypto.use_next = 0
    /\ mud[last.e].crypto.public.recv = ZeroPub
    /\ mud[last.e].crypto.public.send = <<rand, 0>>

\* mud_recv by engine m of the datagram of the sendmsg call o of its peer.
Hand(m, o) ==
    mud_recv(m, o.pkt, SockAddr(o.local.family, o.local.ip, BindPort),
             PktInfo(IPPROTO_IP, o.to.ip), RecvSize, now, {}, rand + 1, TRUE)

Keyx(out) == {o \in Range(out) : o.msg = mud_keyx}

\* C3 (two-party handshake, S1): in every state in which the control tick
\* of A emits a keyx, if B receives it and A then receives the keyx B
\* answers with, A has public.recv = B.public.send and use_next = 1, and a
\* following A.send(P) transmits a data frame for which mud_recv of B
\* returns the size of P and the bytes of P.
C3_Handshake ==
    LET a1 == mud_send_ctrl(mud["A"], now, {}) IN
    \A k1 \in Keyx(a1.out) :
        LET b1 == Hand(mud["B"], k1) IN
        \A k2 \in Keyx(b1.out) :
            LET a2 == Hand(a1.mud, k2)
                a3 == mud_send(a2.mud, Plain, PlainSize, Tc, now, {})
            IN  /\ a2.mud.crypto.public.recv = b1.mud.crypto.public.send
                /\ a2.mud.crypto.use_next = 1
                /\ a3.ret = FrameSize
                /\ DataOut(a3.out) # {}
                /\ \A f \in DataOut(a3.out) :
                      LET b2 == Hand(b1.mud, f) IN
                      /\ b2.ret = PlainSize
                      /\ b2.data = Plain

\* A reached: the scenario has run.  A, whose tick sent a keyx, holds the
\* public.send B answered with and has use_next = 1, and B has just
\* received P in a data frame of A sealed under the exchanged key.
C3_Witness ==
    /\ last.op = "recv"
    /\ last.e = "B"
    /\ last.ret = PlainSize
    /\ last.data = Plain
    /\ last.arg.pkt.key = mud["A"].crypto.next.encrypt
    /\ last.arg.pkt.key # Psk
    /\ mud["A"].crypto.use_next = 1
    /\ mud["A"].crypto.public.recv # ZeroPub
    /\ mud["A"].crypto.send_time > 0

(***************************************************************************)
(* SpecBak: the fallback of the egress selector.  A starts with no path;   *)
(* it configures peers, backup or not, pings arrive, A sends, sendmsg may   *)
(* fail on the first path, time passes.                                     *)
(***************************************************************************)
BakPeer == ops < MaxBakOps /\ Peer("A", {"10.0.0.1"}, {"10.0.0.2"}, {5000, 5001}, {0, 1}, {TRUE})
BakRecv == ops < MaxBakOps /\ Recv("A", {Ping}, {Peer1, Peer2}, EngineCmsgs, {{}}, {TRUE})
BakSend == ops < MaxBakOps /\ Send("A", {PlainSize}, {{}, {1}}, FALSE)
BakAdvance == ops < MaxBakOps /\ Advance({1000})

NextBak == BakPeer \/ BakRecv \/ BakSend \/ BakAdvance

SpecBak == Init /\ [][NextBak]_vars

\* The backup paths of engine m, and the fresh non-backup paths the first
\* loop of mud_send can select at time t: those whose virtual deadline is
\* below the initial limit_min.
Backup(m) == {i \in 1..Len(m.path) : m.path[i].bak.local # 0}
Selectable(m, t) == {i \in Fresh(m, t) : PathLimit(m.path[i], t) < INT64_MAX}

\* The sendmsg calls of the data frame in out that went to a backup path of m.
BackupOut(m, out) == {k \in 1..Len(out) : out[k].msg = "data" /\ out[k].idx \in Backup(m)}

\* What C11 says of the fallback whatever decides it: at most one sendmsg of
\* the data frame goes to a backup path, and it goes to the first backup
\* path of the list; with one path, a backup path, the frame goes to it and
\* the call returns what sendmsg returned; with no path the call returns 0
\* and makes no sendmsg call.
FallbackShape(m, fail, ret, out) ==
    /\ Cardinality(BackupOut(m, out)) <= 1
    /\ \A k \in BackupOut(m, out) : \A j \in Backup(m) : out[k].idx <= j
    /\ (Len(m.path) = 1 /\ Backup(m) = {1})
          => /\ DataTo(out) = {1}
             /\ ret = IF 1 \in fail THEN 0 - 1 ELSE FrameSize
    /\ Len(m.path) = 0 => (ret = 0 /\ out = <<>>)

\* C11 (backup fallback), amended: in a call of mud_send, the data frame
\* goes to a backup path exactly when a backup path exists and no fresh
\* non-backup path has a virtual deadline below INT64_MAX (in particular
\* when every non-backup path is stale, or none exists); it then goes to
\* the first backup path of the list only; when the only path is a backup
\* path the frame goes to it and the call returns the frame size, -1 when
\* sendmsg fails; when the path list is empty the call returns 0 and makes
\* no sendmsg call.
C11_BackupFallback ==
    [][Called("send") =>
        LET m == Ticked IN
        /\ (BackupOut(m, last'.out) # {})
              <=> (Backup(m) # {} /\ Selectable(m, now) = {})
        /\ FallbackShape(m, last'.arg.fail, last'.ret, last'.out)]_vars

\* C11 as claimed: the data frame goes to a backup path exactly when no
\* non-backup path exists.
C11_OnlyWithoutNonBackup ==
    [][Called("send") =>
        LET m == Ticked IN
        /\ (BackupOut(m, last'.out) # {})
              <=> (Backup(m) # {} /\ NonBackup(m) = {})
        /\ FallbackShape(m, last'.arg.fail, last'.ret, last'.out)]_vars

\* A reached: mud_send has just sent the data frame on a stale non-backup
\* path and on the backup path as well.
C11_Witness ==
    /\ last.op = "send"
    /\ last.ret = FrameSize
    /\ \E o \in DataOut(last.out) : o.idx \in Backup(mud["A"])
    /\ \E o \in DataOut(last.out) : o.idx \in NonBackup(mud["A"])

(***************************************************************************)
(* SpecKey: the bad_key flag.  A configures one peer (an active path);     *)
(* pings and data frames, sealed under the long-term key or under another   *)
(* one, arrive from it and from another address (a non-active path); A      *)
(* ticks; time passes.                                                      *)
(***************************************************************************)
KeyPkts == {Ping, DataPkt(now, PlainSize, Psk), DataPkt(now, PlainSize, OtherKey)}

KeyPeer == ops < MaxKeyOps /\ Peer("A", {"10.0.0.1"}, {"10.0.0.2"}, {5000}, {0}, {TRUE})
KeyRecv == ops < MaxKeyOps /\ Recv("A", KeyPkts, {Peer1, Peer2}, EngineCmsgs, {{}}, {TRUE})
KeyCtrl == ops < MaxKeyOps /\ SendCtrl("A", {{}}, FALSE)
KeyAdvance == ops < MaxKeyOps /\ Advance({1000})

NextKey == KeyPeer \/ KeyRecv \/ KeyCtrl \/ KeyAdvance

SpecKey == Init /\ [][NextKey]_vars

\* The path of engine m a packet from addr with ancillary data cmsgs is
\* on, 0 for none.
KnownPath(m, addr, cmsgs) ==
    LET a == mud_unmapv4(addr) IN
    PathFind(m.path, mud_localaddr(cmsgs, a.family).ipaddr, a, 1)

\* pkt is a timely data frame that no slot of engine m opens.
OpensUnder(k, pkt) == pkt.key = k.decrypt /\ pkt.cipher = SlotCipher(k)
BadFrame(m, pkt, t) ==
    /\ pkt.hdr # 0
    /\ pkt.size > MUD_PACKET_MIN_SIZE
    /\ t - pkt.hdr < m.time_tolerance
    /\ pkt.hdr - t < m.time_tolerance
    /\ \A k \in {m.crypto.current, m.crypto.next, m.crypto.last, m.crypto.private} :
          ~OpensUnder(k, pkt)

\* The non-active paths of engine m, and the sendmsg calls of a keyx in out.
NonActive(m) == {i \in 1..Len(m.path) : m.path[i].active = 0}
KeyxTo(out) == {o.idx : o \in Keyx(out)}

\* The tick of engine m at time t sends the keyx of bad_key: there is a
\* non-active path, crypto.send_time is 0 or send_timeout old, and no active
\* path before the first non-active one sends the periodic keyx in this tick
\* (which would set crypto.send_time to t).
Rekeys(m, t) ==
    /\ NonActive(m) # {}
    /\ mud_timeout(t, m.crypto.send_time, m.send_timeout)
    /\ ~ /\ mud_timeout(t, m.crypto.recv_time, MUD_KEYX_TIMEOUT)
         /\ \E j \in 1..Len(m.path) :
               /\ m.path[j].active # 0
               /\ \A i \in NonActive(m) : j < i

\* What C12 says of mud_recv: a data frame on a known path that no slot
\* opens makes the call return 0 and set bad_key.
BadKeySet ==
    (Called("recv")
     /\ BadFrame(mud["A"], last'.arg.pkt, now)
     /\ KnownPath(mud["A"], last'.arg.addr, last'.arg.cmsgs) # 0)
        => (last'.ret = 0 /\ mud'["A"].crypto.bad_key = 1)

\* C12 (rekey on bad key), amended: a data frame on a known path that fails
\* decryption under the four slots makes mud_recv return 0 and set bad_key;
\* a tick that starts with bad_key set sends one keyx on the first
\* non-active path, clears bad_key and sets crypto.send_time, when such a
\* path exists, crypto.send_time is 0 or send_timeout old and no active path
\* before it has sent a keyx in this tick; otherwise the tick sends no keyx
\* on a non-active path and bad_key stays set.
C12_RekeyOnBadKey ==
    [][/\ BadKeySet
       /\ (Called("ctrl") /\ mud["A"].crypto.bad_key = 1)
             => IF Rekeys(mud["A"], now)
                THEN /\ KeyxTo(last'.out) \cap NonActive(mud["A"]) = {i \in NonActive(mud["A"]) :
                                                   \A j \in NonActive(mud["A"]) : i <= j}
                     /\ mud'["A"].crypto.bad_key = 0
                     /\ mud'["A"].crypto.send_time = now
                ELSE /\ KeyxTo(last'.out) \cap NonActive(mud["A"]) = {}
                     /\ mud'["A"].crypto.bad_key = 1]_vars

\* C12 as claimed: whenever bad_key is set, the next tick transmits a keyx
\* and clears bad_key.
C12_EveryTickRekeys ==
    [][/\ BadKeySet
       /\ (Called("ctrl") /\ mud["A"].crypto.bad_key = 1)
             => (Keyx(last'.out) # {} /\ mud'["A"].crypto.bad_key = 0)]_vars

\* A reached: A, with bad_key set by a frame sealed under another key, has
\* just ticked, sent a keyx on its non-active path and cleared bad_key.
C12_Witness ==
    /\ last.op = "ctrl"
    /\ KeyxTo(last.out) \cap NonActive(mud["A"]) # {}
    /\ mud["A"].crypto.bad_key = 0
    /\ mud["A"].crypto.send_time = now

(***************************************************************************)
(* The crypto envelope, over the rings the engines of SpecNet reach.        *)
(***************************************************************************)
\* The slots of a ring in the order mud_decrypt tries them.
SlotOrder == <<"current", "next", "last", "private">>

\* The plaintexts and nonces of the round trip: one byte, the payload of
\* the scenarios and the largest payload of the MTU; the clock, 1, and a
\* nonce whose low 48 bits are not the nonce.
Plaintexts == {[data |-> <<7>>, size |-> 1], [data |-> Plain, size |-> PlainSize],
               [data |-> <<1, 2, 3>>, size |-> 1450]}
Nonces == {now, 1, UINT48_MOD + 5}

\* An engine of the peer of m that seals with the key slot s of m opens:
\* its current slot (its next slot when use_next is set) is slot s of m
\* with the two directions exchanged.
SealingPeer(m, s, use_next) ==
    LET k == [encrypt |-> m.crypto[s].decrypt, decrypt |-> m.crypto[s].encrypt,
              aes |-> m.crypto[s].aes]
    IN  IF use_next = 0
        THEN [m EXCEPT !.crypto.current = k, !.crypto.use_next = 0]
        ELSE [m EXCEPT !.crypto.next = k, !.crypto.use_next = 1]

\* The first slot of m, in the order of mud_decrypt, that opens pkt; 0 for none.
FirstSlot(m, pkt) ==
    IF \E n \in 1..4 : OpensUnder(m.crypto[SlotOrder[n]], pkt)
    THEN CHOOSE n \in 1..4 :
            /\ OpensUnder(m.crypto[SlotOrder[n]], pkt)
            /\ \A j \in 1..(n - 1) : ~OpensUnder(m.crypto[SlotOrder[j]], pkt)
    ELSE 0

\* C13 (round trip and slot order): for every ring an engine reaches,
\* every slot s of it, every plaintext P and every nonzero nonce, the frame
\* mud_encrypt makes of P under the key of s is decrypted by mud_decrypt to
\* exactly P with its size; the ring changes only when the first slot that
\* opens the frame, in the order current, next, last, private, is next, and
\* it is then promoted (last = old current, current = old next, use_next
\* cleared, keypair re-initialised); a frame opened by current, last or
\* private leaves the whole engine unchanged, and a frame no slot opens
\* returns -1 and leaves it unchanged.
C13_RoundTrip ==
    \A e \in Endpoints :
        LET m == mud[e] IN
        /\ \A n \in 1..4, P \in Plaintexts, nonce \in Nonces, u \in {0, 1} :
              LET f == mud_encrypt(SealingPeer(m, SlotOrder[n], u), nonce,
                                   SEND_PACKET_SIZE, P.data, P.size)
                  d == mud_decrypt(m, RecvSize, f.pkt, rand + 1)
                  first == FirstSlot(m, f.pkt)
              IN  /\ f.size = P.size + MUD_PACKET_MIN_SIZE
                  /\ d.ret = P.size
                  /\ d.data = P.data
                  /\ first \in 1..n
                  /\ IF first = 2
                     THEN /\ d.mud.crypto.last = m.crypto.current
                          /\ d.mud.crypto.current = m.crypto.next
                          /\ d.mud.crypto.use_next = 0
                          /\ d.mud.crypto.public.recv = ZeroPub
                          /\ d.mud.crypto.public.send # m.crypto.public.send
                          /\ d.mud.crypto.next = m.crypto.next
                          /\ d.mud.crypto.private = m.crypto.private
                     ELSE d.mud = m
        /\ LET d == mud_decrypt(m, RecvSize, DataPkt(now, PlainSize, OtherKey), rand + 1) IN
           /\ FirstSlot(m, DataPkt(now, PlainSize, OtherKey)) = 0
           /\ d.ret = 0 - 1
           /\ d.mud = m

\* A reached: an endpoint whose next slot holds an exchanged key has just
\* received a data frame sealed under the long-term key, which its current
\* slot opened, and has not promoted.
C13_Witness ==
    /\ last.op = "recv"
    /\ last.ret = PlainSize
    /\ last.data = Plain
    /\ last.arg.pkt.key = Psk
    /\ mud[last.e].crypto.current = KeySlot(Psk)
    /\ mud[last.e].crypto.next.decrypt # Psk
    /\ mud[last.e].crypto.public.recv # ZeroPub

(***************************************************************************)
(* Frames, over the engines of SpecNet.                                     *)
(***************************************************************************)
\* The total size of a control frame of each kind, in bytes.
KindSize(msg) ==
    CASE msg = mud_ping -> 28
      [] msg = mud_bakx -> 29
      [] msg = mud_mtux -> 34
      [] msg = mud_pong -> 46
      [] msg = mud_keyx -> 94

\* The sendmsg call mud_ctrl_path makes for msg on path i of engine m.
CtrlFrame(m, msg, i) == mud_ctrl_path([mud |-> m, out |-> <<>>], msg, i, now, {}).out[1]

\* Endpoint s with its path to the peer marked backup or not.
WithBackup(s, b) == mud_peer(mud[s], NameOf(s), NameOf(Other(s)), BindPort, b, TRUE).mud

\* C14 (frame discrimination and dispatch): every data frame an engine
\* hands to sendmsg has a nonzero 48-bit header and every control frame a
\* zero one and the size of its kind (ping 28, bakx 29, mtux 34, pong 46,
\* keyx 94); and the frame mud_ctrl_path of one endpoint makes for kind K,
\* received by the other endpoint, is handled as K and as nothing else: the
\* call returns 0 with no plaintext and bad_key as it was; the key exchange
\* state changes only for a keyx, which stores the sender's public.send;
\* the mtu state only for an mtux, which stores the sender's mtu.local; the
\* pong fields and rtt only for a pong, which stores the sender's sdt, rdt,
\* rst; the bak fields only for a bakx, which stores the sender's flag.
C14_FrameDispatch ==
    /\ \A o \in Range(last.out) :
          IF o.msg = "data" THEN o.pkt.hdr # 0
          ELSE o.pkt.hdr = 0 /\ o.pkt.size = KindSize(o.msg)
    /\ \A s \in Endpoints, b \in {0, 1}, K \in CtrlMsgs :
          LET sm == WithBackup(s, b)
              o == CtrlFrame(sm, K, 1)
              m == mud[Other(s)]
              h == Hand(m, o)
              p0 == m.path[1]
              p == h.mud.path[1]
          IN  /\ Len(m.path) = 1 /\ Len(h.mud.path) = 1
              /\ o.pkt.hdr = 0
              /\ o.pkt.size = KindSize(K)
              /\ h.ret = 0 /\ h.data = <<>>
              /\ h.mud.crypto.bad_key = m.crypto.bad_key
              /\ p.recv_time = now
              /\ IF K = mud_keyx
                 THEN h.mud.crypto.public.recv = sm.crypto.public.send
                 ELSE h.mud.crypto = m.crypto /\ Keyx(h.out) = {}
              /\ IF K = mud_mtux
                 THEN h.mud.mtu.remote = sm.mtu.local
                 ELSE h.mud.mtu = m.mtu
              /\ IF K = mud_pong
                 THEN /\ p.r_sdt = mud_write48(sm.path[1].sdt)
                      /\ p.r_rdt = mud_write48(sm.path[1].rdt)
                      /\ p.r_rst = mud_write48(sm.path[1].rst)
                      /\ p.rtt = SubU64(now, p.r_rst)
                 ELSE /\ p.r_sdt = p0.r_sdt /\ p.r_rdt = p0.r_rdt /\ p.r_rst = p0.r_rst
                      /\ p.r_dt = p0.r_dt /\ p.rtt = p0.rtt
              /\ IF K = mud_bakx
                 THEN p.bak.local = 1 /\ p.bak.remote = b
                 ELSE p.bak = p0.bak

\* A reached: an endpoint has just received the pong of its peer, a frame
\* of 46 bytes with a zero header, and holds the send time it reports.
C14_Witness ==
    /\ last.op = "recv"
    /\ last.arg.pkt.hdr = 0
    /\ last.arg.pkt.size = 46
    /\ mud[last.e].path[1].r_rst > 0
    /\ mud[last.e].path[1].r_rst = last.arg.pkt.data[3]
    /\ mud[last.e].path[1].rtt = now - last.arg.pkt.data[3]

(***************************************************************************)
(* SpecTrain: a peer sends A a train of pings with a constant period.  In   *)
(* this specification net holds the train, each ping with its send time;    *)
(* a ping arrives at its send time, the clock moving to it.                 *)
(***************************************************************************)
\* The periods of the trains, in clock units.
Gaps == {1, 2, 7, 8, 9, 50, 100, 101, 999, 1000, 65536, 500000}

\* The k-th ping of the train of period D.
TrainPing(k, D) ==
    [dst |-> "A", from |-> Peer1, local |-> <<10, 0, 0, 1>>,
     pkt |-> CtrlPkt(mud_ping, T0 + k * D, <<>>, Psk)]

InitTrain ==
    /\ mud = [e \in Endpoints |-> mud_create(0, 1450, Psk, IF e = "A" THEN 1 ELSE 2)]
    /\ \E D \in Gaps : net = {TrainPing(k, D) : k \in 0..MaxTrain}
    /\ now = T0
    /\ adv = 0
    /\ rand = 2
    /\ ops = 0
    /\ last = NoCall

\* The period of the train in net.
TrainGap == CHOOSE D \in Gaps : TrainPing(1, D) \in net

\* The next ping of the train arrives: mud_recv at its send time.
TrainRecv ==
    /\ ops < MaxTrain
    /\ \E d \in net :
          LET t == d.pkt.time
              cmsgs == PktInfo(IPPROTO_IP, d.local)
              r == mud_recv(mud["A"], d.pkt, d.from, cmsgs, RecvSize, t, {}, rand + 1, TRUE)
          IN  /\ t = T0 + ops * TrainGap
              /\ now' = t
              /\ mud' = [mud EXCEPT !["A"] = r.mud]
              /\ rand' = rand + r.rand
              /\ last' = [NoCall EXCEPT !.op = "recv", !.e = "A", !.ret = r.ret,
                                        !.out = r.out, !.data = r.data,
                                        !.arg.pkt = d.pkt, !.arg.addr = d.from,
                                        !.arg.cmsgs = cmsgs]
              /\ ops' = ops + 1
              /\ UNCHANGED <<net, adv>>

NextTrain == TrainRecv

SpecTrain == InitTrain /\ [][NextTrain]_vars

\* C15 (EWMA convergence): on a path that receives packets with a constant
\* positive gap D, rdt is 0 after the first receive, the raw delta D after
\* the second, and after N >= 20 receives it is within 1% of D:
\* 100 * |rdt - D| <= D.
C15_EwmaConvergence ==
    (ops >= 1) =>
        LET rdt == Paths("A")[1].rdt
            D == TrainGap
        IN  /\ Len(Paths("A")) = 1
            /\ Paths("A")[1].recv_time = T0 + (ops - 1) * D
            /\ ops = 1 => rdt = 0
            /\ ops = 2 => rdt = D
            /\ ops >= 20 => 100 * mud_abs_diff(rdt, D) <= D

\* A reached: the 21st ping of the train of period 101 has been received
\* and rdt is 101.
C15_Witness ==
    /\ ops = 21
    /\ last.op = "recv"
    /\ TrainGap = 101
    /\ now = T0 + 20 * 101
    /\ Paths("A")[1].rdt = 101

\* The smaller of two integers.
Min(a, b) == IF a <= b THEN a ELSE b

\* pkt is a timely mtux under the long-term key of engine m.
IsMtux(m, pkt, t) ==
    /\ pkt.hdr = 0
    /\ pkt.size = MUD_MTUX_SIZE
    /\ OpensUnder(m.crypto.private, pkt)
    /\ t - pkt.time < m.time_tolerance
    /\ pkt.time - t < m.time_tolerance

\* The sendmsg calls in out that carry msg, as (path address, kind).
SentTo(out, msg) == {o.to : o \in {x \in Range(out) : x.msg = msg}}

\* The path a packet from addr is on was configured by mud_peer.
ActivePath(m, addr, cmsgs) ==
    /\ KnownPath(m, addr, cmsgs) # 0
    /\ m.path[KnownPath(m, addr, cmsgs)].active # 0

\* What C16 says of mud_get_mtu and of the reply to an mtux.
MtuRule ==
    /\ mud_get_mtu(mud'["A"]) =
          IF mud'["A"].mtu.remote = 0 THEN mud'["A"].mtu.local
          ELSE Min(mud'["A"].mtu.local, mud'["A"].mtu.remote)
    /\ (Called("recv") /\ IsMtux(mud["A"], last'.arg.pkt, now))
          => SentTo(last'.out, mud_mtux) =
                IF ActivePath(mud["A"], last'.arg.addr, last'.arg.cmsgs)
                THEN {} ELSE {last'.arg.addr}

\* C16 (MTU negotiation), as claimed: receiving an mtux stores the value
\* of its payload as mtu.remote and is answered by an mtux on the path iff
\* the path is non-active; mud_get_mtu is mtu.local when mtu.remote is 0
\* and min(mtu.local, mtu.remote) otherwise.
C16_MtuNegotiation ==
    [][/\ MtuRule
       /\ (Called("recv") /\ IsMtux(mud["A"], last'.arg.pkt, now))
             => mud'["A"].mtu.remote = last'.arg.pkt.data[1]]_vars

(***************************************************************************)
(* SpecTick: the control tick.  A configures peers, backup or not; keyx,   *)
(* mtux, bakx and frames under another key arrive from them and from        *)
(* another address; A ticks; time passes.                                   *)
(***************************************************************************)
TickPkts ==
    {CtrlPkt(mud_keyx, now, <<9, 0, 0, 0>>, Psk), CtrlPkt(mud_mtux, now, <<500>>, Psk),
     CtrlPkt(mud_bakx, now, <<1>>, Psk), DataPkt(now, PlainSize, OtherKey)}

TickPeer == ops < MaxTickOps /\ Peer("A", {"10.0.0.1"}, {"10.0.0.2"}, {5000, 5001}, {0, 1}, {TRUE})
TickRecv == ops < MaxTickOps /\ Recv("A", TickPkts, {Peer1, Peer2}, EngineCmsgs, {{}}, {TRUE})
TickCtrl == ops < MaxTickOps /\ SendCtrl("A", {{}, {1}}, FALSE)
TickAdvance == ops < MaxTickOps /\ Advance({1000})

NextTick == TickPeer \/ TickRecv \/ TickCtrl \/ TickAdvance

SpecTick == Init /\ [][NextTick]_vars

\* x is older than timeout at time t: never set, or timeout or more ago.
Older(t, x, timeout) == (x = 0) \/ (t - x >= timeout)

\* The sendmsg calls of out, by position, that went to path i, and those
\* of kind msg that went to a path before i.
OutOf(out, i) == {k \in 1..Len(out) : out[k].idx = i}
Before(out, msg, i) == {k \in 1..Len(out) : out[k].msg = msg /\ out[k].idx < i}

\* The control message the tick of engine m at time t owes path i, "none"
\* for none, when out holds the messages of the tick: the paths before i
\* have been served, so that crypto.send_time and mtu.send_time are t when
\* a keyx, an mtux has gone to one of them, and bad_key is clear when a
\* keyx has gone to a non-active one.
Owed(m, i, t, out) ==
    LET path == m.path[i]
        crypto_send_time == IF Before(out, mud_keyx, i) # {} THEN t
                            ELSE m.crypto.send_time
        mtu_send_time == IF Before(out, mud_mtux, i) # {} THEN t ELSE m.mtu.send_time
        bad_key == IF \E k \in Before(out, mud_keyx, i) : m.path[out[k].idx].active = 0
                   THEN 0 ELSE m.crypto.bad_key
    IN  IF path.active = 0
        THEN IF bad_key # 0 /\ Older(t, crypto_send_time, m.send_timeout)
             THEN mud_keyx ELSE "none"
        ELSE IF Older(t, crypto_send_time, m.send_timeout)
                /\ Older(t, m.crypto.recv_time, 60 * MUD_ONE_MIN)
        THEN mud_keyx
        ELSE IF m.mtu.remote = 0 /\ Older(t, mtu_send_time, m.send_timeout)
        THEN mud_mtux
        ELSE IF path.bak.local # 0 /\ path.bak.remote = 0
                /\ Older(t, path.bak.send_time, m.send_timeout)
        THEN mud_bakx
        ELSE IF path.send_time = 0 THEN mud_ping
        ELSE "none"

\* C17 (control tick priority): in a call of mud_send_ctrl every path
\* gets at most one control message, the paths being served in list order;
\* an active path gets the first applicable of keyx (crypto.send_time older
\* than send_timeout and crypto.recv_time older than 60 min), mtux
\* (mtu.remote = 0 and mtu.send_time older than send_timeout), bakx
\* (bak.local, not bak.remote, bak.send_time older than send_timeout) and
\* ping (send_time = 0), and nothing when none applies; a non-active path
\* gets a keyx when bad_key is set and crypto.send_time is older than
\* send_timeout, and nothing otherwise.
C17_TickPriority ==
    [][Called("ctrl") =>
        \A i \in 1..Len(Paths("A")) :
            LET owed == Owed(mud["A"], i, now, last'.out) IN
            /\ Cardinality(OutOf(last'.out, i)) <= 1
            /\ IF owed = "none" THEN OutOf(last'.out, i) = {}
               ELSE \E k \in OutOf(last'.out, i) : last'.out[k].msg = owed]_vars

\* A reached: a tick has just sent a ping, and nothing else, on an active
\* path never sent on before: a keyx was received (crypto.recv_time is
\* recent) and the MTU of the peer is known, on a non-active path that the
\* tick owed nothing.
C17_Witness ==
    /\ last.op = "ctrl"
    /\ Len(last.out) = 1
    /\ last.out[1].msg = mud_ping
    /\ Paths("A")[last.out[1].idx].active = 1
    /\ mud["A"].mtu.remote = 500
    /\ mud["A"].crypto.recv_time > 0
    /\ \E i \in 1..Len(Paths("A")) : Paths("A")[i].active = 0

(***************************************************************************)
(* SpecPong: the pong rule.  A configures a peer, backup or not; pings,    *)
(* bakx and data frames, under the long-term key or another, arrive from it *)
(* and from another address; the clock advances by 99 or 100 ms.            *)
(***************************************************************************)
PongPkts ==
    {Ping, CtrlPkt(mud_bakx, now, <<1>>, Psk), DataPkt(now, PlainSize, Psk),
     DataPkt(now, PlainSize, OtherKey)}

PongPeer == ops < MaxPongOps /\ Peer("A", {"10.0.0.1"}, {"10.0.0.2"}, {5000}, {0, 1}, {TRUE})
PongRecv == ops < MaxPongOps /\ Recv("A", PongPkts, {Peer1, Peer2}, EngineCmsgs, {{}, {1}}, {TRUE})
PongAdvance == ops < MaxPongOps /\ Advance({99 * MUD_ONE_MSEC, 100 * MUD_ONE_MSEC})

NextPong == PongPeer \/ PongRecv \/ PongAdvance

SpecPong == Init /\ [][NextPong]_vars

\* mud_recv of engine m at time t accepts pkt from addr: it is long enough
\* and timely, a control packet verifies under the long-term key, a data
\* frame is on a known path, and the ancillary data give the local address.
Accepted(m, pkt, addr, cmsgs, t) ==
    /\ pkt.size > MUD_PACKET_MIN_SIZE
    /\ t - SendTime(pkt) < m.time_tolerance
    /\ SendTime(pkt) - t < m.time_tolerance
    /\ pkt.hdr = 0 => (pkt.size >= 28 /\ OpensUnder(m.crypto.private, pkt))
    /\ pkt.hdr # 0 => KnownPath(m, addr, cmsgs) # 0
    /\ mud_localaddr(cmsgs, mud_unmapv4(addr).family).ok

\* The pong rule on path i of engine m at time t; i = 0 is a path the
\* packet creates.
PongDue(m, i, t) ==
    /\ i # 0
    /\ m.path[i].bak.local = 0
    /\ m.path[i].recv_time > 0
    /\ (m.path[i].pong_time = 0) \/ (t - m.path[i].pong_time >= 100 * MUD_ONE_MSEC)

\* The sendmsg calls of a pong in out, by position.
Pongs(out) == {k \in 1..Len(out) : out[k].msg = mud_pong}

\* C18 (pong rule and rate limit): a call of mud_recv that accepts a
\* packet sends a pong, one, on the path of the packet iff the path is not
\* bak.local, has received before (recv_time > 0) and pong_time is 0 or at
\* least 100 ms ago; it then sets pong_time to now, and otherwise leaves
\* pong_time; recv_time becomes now.  So the first packet on a path gets no
\* pong, and pong_time, the time of the last pong, is at least 100 ms before
\* the next one.
C18_PongRule ==
    [][(Called("recv")
        /\ Accepted(mud["A"], last'.arg.pkt, last'.arg.addr, last'.arg.cmsgs, now))
       => LET i == KnownPath(mud["A"], last'.arg.addr, last'.arg.cmsgs)
              j == KnownPath(mud'["A"], last'.arg.addr, last'.arg.cmsgs)
              old_pong_time == IF i = 0 THEN 0 ELSE Paths("A")[i].pong_time
          IN  /\ j # 0
              /\ mud'["A"].path[j].recv_time = now
              /\ IF PongDue(mud["A"], i, now)
                 THEN /\ Cardinality(Pongs(last'.out)) = 1
                      /\ \A k \in Pongs(last'.out) : last'.out[k].idx = j
                      /\ mud'["A"].path[j].pong_time = now
                 ELSE /\ Pongs(last'.out) = {}
                      /\ mud'["A"].path[j].pong_time = old_pong_time]_vars

\* A reached: a path of A has just sent its second pong, exactly 100 ms
\* after the first.
C18_Witness ==
    /\ last.op = "recv"
    /\ now = T0 + 100 * MUD_ONE_MSEC
    /\ Pongs(last.out) # {}
    /\ \E o \in Range(last.out) :
          /\ o.msg = mud_pong
          /\ Paths("A")[o.idx].pong_time = now
          /\ o.pkt.data[3] = now
          /\ o.pkt.data[1] # 0

(***************************************************************************)
(* SpecKeyx: the receive side of the key exchange.  A configures a peer;   *)
(* keyx packets arrive from it and from another address, carrying a public *)
(* key or the all-zero point as public.send and, as public.recv, nothing   *)
(* or the current public.send of A; pings arrive; A ticks; time passes.    *)
(***************************************************************************)
KeyxPkts ==
    {CtrlPkt(mud_keyx, now, peer_send \o peer_recv, Psk) :
        peer_send \in {<<9, 1>>, ZeroPub},
        peer_recv \in {ZeroPub, mud["A"].crypto.public.send}}
    \cup {Ping}

KeyxPeer == ops < MaxKeyxOps /\ Peer("A", {"10.0.0.1"}, {"10.0.0.2"}, {5000}, {0}, {TRUE})
KeyxRecv == ops < MaxKeyxOps /\ Recv("A", KeyxPkts, {Peer1, Peer2}, EngineCmsgs, {{}}, {TRUE})
KeyxCtrl == ops < MaxKeyxOps /\ SendCtrl("A", {{}}, FALSE)
KeyxAdvance == ops < MaxKeyxOps /\ Advance({1000})

NextKeyx == KeyxPeer \/ KeyxRecv \/ KeyxCtrl \/ KeyxAdvance

SpecKeyx == Init /\ [][NextKeyx]_vars

\* mud_recv of engine m at time t accepts pkt and dispatches it to
\* mud_recv_keyx.
IsKeyx(m, pkt, addr, cmsgs, t) ==
    /\ pkt.hdr = 0
    /\ pkt.size = KindSize(mud_keyx)
    /\ Accepted(m, pkt, addr, cmsgs, t)

\* The kinds of the sendmsg calls in out, in call order.
Kinds(out) == [k \in 1..Len(out) |-> out[k].msg]

\* C19 (keyx receive step): a call of mud_recv that processes a keyx
\* (peer_send, peer_recv) sets public.recv to peer_send, sets use_next to 1
\* if peer_recv is the engine's current public.send and to 0 otherwise, and
\* sends a keyx, one, on the path of the packet, iff peer_recv differs from
\* the engine's current public.send; that keyx carries (own public.send,
\* peer_send).
C19_KeyxReceive ==
    [][(Called("recv")
        /\ IsKeyx(mud["A"], last'.arg.pkt, last'.arg.addr, last'.arg.cmsgs, now))
       => LET peer_send == SubSeq(last'.arg.pkt.data, 1, 2)
              peer_recv == SubSeq(last'.arg.pkt.data, 3, 4)
              own_send == mud["A"].crypto.public.send
              j == KnownPath(mud'["A"], last'.arg.addr, last'.arg.cmsgs)
              sent == {k \in 1..Len(last'.out) : last'.out[k].msg = mud_keyx}
          IN  /\ mud'["A"].crypto.public.recv = peer_send
              /\ mud'["A"].crypto.public.send = own_send
              /\ mud'["A"].crypto.use_next = (IF peer_recv = own_send THEN 1 ELSE 0)
              /\ Cardinality(sent) = (IF peer_recv = own_send THEN 0 ELSE 1)
              /\ \A k \in sent :
                    /\ last'.out[k].idx = j
                    /\ last'.out[k].pkt.size = KindSize(mud_keyx)
                    /\ last'.out[k].pkt.data = own_send \o peer_send]_vars

\* A reached: A has just processed a keyx that acknowledges its current
\* public.send: it holds the peer's public key, has derived the next keys,
\* has use_next = 1 and sent no keyx back.
C19_Witness ==
    /\ last.op = "recv"
    /\ last.arg.pkt.size = KindSize(mud_keyx)
    /\ SubSeq(last.arg.pkt.data, 3, 4) = mud["A"].crypto.public.send
    /\ mud["A"].crypto.public.recv = <<9, 1>>
    /\ mud["A"].crypto.use_next = 1
    /\ Keyx(last.out) = {}
    /\ mud["A"].crypto.recv_time > 0

\* C20 (a keyx solicits the keyx of the key exchange and the pong of the
\* pong rule, nothing else): a call of mud_recv that processes a keyx makes
\* at most two sendmsg calls, first a pong iff the pong rule applies to the
\* path (not bak.local, received before, pong_time 0 or at least 100 ms
\* ago), then a keyx iff peer_recv differs from the engine's public.send.
C20_KeyxReplies ==
    [][(Called("recv")
        /\ IsKeyx(mud["A"], last'.arg.pkt, last'.arg.addr, last'.arg.cmsgs, now))
       => LET i == KnownPath(mud["A"], last'.arg.addr, last'.arg.cmsgs)
              sync_send == SubSeq(last'.arg.pkt.data, 3, 4) # mud["A"].crypto.public.send
          IN  Kinds(last'.out) =
                  (IF PongDue(mud["A"], i, now) THEN <<mud_pong>> ELSE <<>>)
                  \o (IF sync_send THEN <<mud_keyx>> ELSE <<>>)]_vars

\* C20 as claimed: the call emits one keyx when sync_send holds and no
\* packet at all otherwise.
C20_OnlyKeyx ==
    [][(Called("recv")
        /\ IsKeyx(mud["A"], last'.arg.pkt, last'.arg.addr, last'.arg.cmsgs, now))
       => LET sync_send == SubSeq(last'.arg.pkt.data, 3, 4) # mud["A"].crypto.public.send
          IN  Kinds(last'.out) = (IF sync_send THEN <<mud_keyx>> ELSE <<>>)]_vars

\* A reached: A has just processed a keyx that acknowledges its public.send
\* on a path that had received before, and answered with a pong alone.
C20_Witness ==
    /\ last.op = "recv"
    /\ last.arg.pkt.size = KindSize(mud_keyx)
    /\ SubSeq(last.arg.pkt.data, 3, 4) = mud["A"].crypto.public.send
    /\ Kinds(last.out) = <<mud_pong>>

(***************************************************************************)
(* SpecBakx: the receive side of the backup exchange.  A configures a      *)
(* peer, backup or not; bakx packets with flag 0 or 1 and pings arrive     *)
(* from it and from another address; sendmsg may fail.                     *)
(***************************************************************************)
BakxPkts == {Ping, CtrlPkt(mud_bakx, now, <<0>>, Psk), CtrlPkt(mud_bakx, now, <<1>>, Psk)}

BakxPeer == ops < MaxBakxOps /\ Peer("A", {"10.0.0.1"}, {"10.0.0.2"}, {5000}, {0, 1}, {TRUE})
BakxRecv == ops < MaxBakxOps /\ Recv("A", BakxPkts, {Peer1, Peer2}, EngineCmsgs, {{}, {1}}, {TRUE})
BakxSend == ops < MaxBakxOps /\ Send("A", {PlainSize}, {{}}, FALSE)

NextBakx == BakxPeer \/ BakxRecv \/ BakxSend

SpecBakx == Init /\ [][NextBakx]_vars

\* mud_recv of engine m at time t accepts pkt and takes the bakx branch.
IsBakx(m, pkt, addr, cmsgs, t) ==
    /\ pkt.hdr = 0
    /\ pkt.size = KindSize(mud_bakx)
    /\ Accepted(m, pkt, addr, cmsgs, t)

\* C21 (bakx receive), as claimed: a call of mud_recv that processes a bakx
\* sets bak.remote of the path to the payload flag, replies with a bakx iff
\* the path is non-active, and leaves bak.local of the path as it was (0 on
\* a path the packet creates).
C21_BakxReceive ==
    [][(Called("recv")
        /\ IsBakx(mud["A"], last'.arg.pkt, last'.arg.addr, last'.arg.cmsgs, now))
       => LET i == KnownPath(mud["A"], last'.arg.addr, last'.arg.cmsgs)
              j == KnownPath(mud'["A"], last'.arg.addr, last'.arg.cmsgs)
              p == mud'["A"].path[j]
          IN  /\ p.bak.remote = last'.arg.pkt.data[1]
              /\ SentTo(last'.out, mud_bakx) =
                    (IF p.active = 0 THEN {last'.arg.addr} ELSE {})
              /\ p.bak.local = (IF i = 0 THEN 0 ELSE Paths("A")[i].bak.local)]_vars

(***************************************************************************)
(* SpecInv: the life of the path records.  A configures peers with IPv4    *)
(* and IPv6 names and hosts, an IPv4-mapped host among them; pings, a ping *)
(* with send time 0, and data frames under the long-term key and under     *)
(* another arrive from IPv4, IPv4-mapped and IPv6 addresses with IPv4 or   *)
(* IPv6 ancillary data; the clock advances by 1 ms or by a second.         *)
(***************************************************************************)
InvPkts ==
    {Ping, CtrlPkt(mud_ping, 0, <<>>, Psk), DataPkt(now, PlainSize, Psk),
     DataPkt(now, PlainSize, OtherKey)}

InvAddrs == {Peer1, Mapped(Peer1), SockAddr(AF_INET6, inet_pton6("2001:db8::2"), 5000)}

InvPeer ==
    /\ ops < MaxInvOps
    /\ Peer("A", {"10.0.0.1", "2001:db8::1"}, {"10.0.0.2", "::ffff:10.0.0.2", "2001:db8::2"},
            {5000}, {0}, {TRUE})
InvRecv == ops < MaxInvOps /\ Recv("A", InvPkts, InvAddrs, PathCmsgs, {{}}, {TRUE})
InvAdvance == ops < MaxInvOps /\ Advance({MUD_ONE_MSEC, 1000 * MUD_ONE_MSEC})

NextInv == InvPeer \/ InvRecv \/ InvAdvance

SpecInv == Init /\ [][NextInv]_vars

\* The position in paths of the path with the key of path p, 0 for none.
Earlier(paths, p) == PathFind(paths, p.local_addr, p.addr, 1)

\* The step is a call of mud_recv that accepts a packet on path j of the
\* new list of paths.
ReceivedOn(j) ==
    /\ Called("recv")
    /\ Accepted(mud["A"], last'.arg.pkt, last'.arg.addr, last'.arg.cmsgs, now)
    /\ KnownPath(mud'["A"], last'.arg.addr, last'.arg.cmsgs) = j

\* C22 (path invariants): in every reachable state every path has
\* local_addr.family = addr.family, and recv_time > 0 implies rst > 0.  And
\* rdt > 0 implies at least two receives on the path: recv_time of a path
\* changes, from 0 on a path just created, only in a call of mud_recv that
\* accepts a packet on that path, and rdt leaves 0 only in such a call on a
\* path whose recv_time was already positive.
C22_PathInvariants ==
    /\ [](\A e \in Endpoints : \A i \in 1..Len(Paths(e)) :
            /\ Paths(e)[i].local_addr.family = Paths(e)[i].addr.family
            /\ Paths(e)[i].recv_time > 0 => Paths(e)[i].rst > 0
            /\ Paths(e)[i].rdt > 0 => Paths(e)[i].recv_time > 0)
    /\ [][\A j \in 1..Len(mud'["A"].path) :
            LET p == mud'["A"].path[j]
                i == Earlier(Paths("A"), p)
                old_recv_time == IF i = 0 THEN 0 ELSE Paths("A")[i].recv_time
                old_rdt == IF i = 0 THEN 0 ELSE Paths("A")[i].rdt
            IN  /\ p.recv_time # old_recv_time => ReceivedOn(j)
                /\ (p.rdt > 0 /\ old_rdt = 0) => (ReceivedOn(j) /\ old_recv_time > 0)]_vars

\* A reached: A holds an IPv6 path and an IPv4 path, created from an
\* IPv4-mapped address, that has rdt > 0 after its second packet.
C22_Witness ==
    /\ last.op = "recv"
    /\ last.arg.addr = Mapped(Peer1)
    /\ \E i, j \in 1..Len(Paths("A")) :
          /\ Paths("A")[i].addr.family = AF_INET6
          /\ Paths("A")[j].addr = Peer1
          /\ Paths("A")[j].rdt > 0
          /\ Paths("A")[j].rst > 0
          /\ Paths("A")[j].recv_time = now

(***************************************************************************)
(* SpecCross: two endpoints that share the long-term key and have an       *)
(* active path to each other.  Each may tick until it has sent its first   *)
(* keyx and may send a data frame when none is in flight; every datagram   *)
(* sent is delivered once, in any order.                                   *)
(***************************************************************************)
DataInFlight == {d \in net : d.pkt.hdr # 0}

CrossCtrl(e) ==
    /\ ops < MaxCrossOps
    /\ mud[e].crypto.send_time = 0
    /\ SendCtrl(e, {{}}, TRUE)
CrossSend(e) ==
    /\ ops < MaxCrossOps
    /\ DataInFlight = {}
    /\ Send(e, {PlainSize}, {{}}, TRUE)
CrossDeliver(e) == ops < MaxCrossOps /\ Deliver(e)

NextCross ==
    \/ CrossCtrl("A")
    \/ CrossCtrl("B")
    \/ CrossSend("A")
    \/ CrossSend("B")
    \/ CrossDeliver("A")
    \/ CrossDeliver("B")

SpecCross == InitNet /\ [][NextCross]_vars

\* C23 (no spurious bad key), as claimed: between two endpoints that share
\* the long-term key, every datagram being delivered once, bad_key is never
\* set at either endpoint.
C23_NoBadKey == \A e \in Endpoints : mud[e].crypto.bad_key = 0

\* mud_recv of the datagram d in flight by engine m.
Arrive(m, d) ==
    mud_recv(m, d.pkt, d.from, PktInfo(IPPROTO_IP, d.local), RecvSize, now, {}, rand + 1, TRUE)

\* The keyx datagrams in flight whose sender still has the public.send they
\* carry.
KeyxInFlight ==
    {d \in net : /\ d.pkt.hdr = 0
                 /\ d.pkt.size = KindSize(mud_keyx)
                 /\ SubSeq(d.pkt.data, 1, 2) = mud[Other(d.dst)].crypto.public.send}

\* C24 (the keyx exchange quiesces): for every keyx in flight whose sender
\* has not changed its ephemeral key, the receiver sends no keyx back when
\* the echoed key is its own public.send, and at most one otherwise; that
\* reply, received by the sender, is answered by no keyx.
C24_KeyxQuiesces ==
    \A d \in KeyxInFlight :
        LET replies == Keyx(Arrive(mud[d.dst], d).out) IN
        /\ SubSeq(d.pkt.data, 3, 4) = mud[d.dst].crypto.public.send => replies = {}
        /\ Cardinality(replies) <= 1
        /\ \A o \in replies : Keyx(Hand(mud[Other(d.dst)], o).out) = {}

\* A reached: after a promotion at B, a keyx of A is in flight that B
\* answers with a keyx, its echoed key not being the new public.send of B.
C24_Witness ==
    \E d \in KeyxInFlight :
        /\ d.dst = "B"
        /\ mud["B"].crypto.current # mud["B"].crypto.private
        /\ SubSeq(d.pkt.data, 3, 4) # ZeroPub
        /\ Keyx(Arrive(mud["B"], d).out) # {}

\* pkt fails authentication at engine m at time t: a control packet that
\* does not verify under the long-term key, or a data frame no slot opens.
FailsAuth(m, pkt, t) ==
    \/ pkt.hdr = 0 /\ pkt.size > MUD_PACKET_MIN_SIZE /\ ~OpensUnder(m.crypto.private, pkt)
    \/ BadFrame(m, pkt, t)

\* The timing fields of a path.
Timing(p) == <<p.recv_time, p.rst, p.rdt, p.sdt, p.pong_time, p.send_time>>

\* C25 (authentication precedes state change), as claimed: a call of
\* mud_recv on a packet that fails authentication, or on a data frame from an
\* unknown (local, remote) pair, creates no path, changes the timing fields
\* of no path, emits no packet, and changes nothing of the engine but
\* bad_key.
C25_AuthFirst ==
    [][(Called("recv")
        /\ \/ FailsAuth(mud["A"], last'.arg.pkt, now)
           \/ /\ last'.arg.pkt.hdr # 0
              /\ KnownPath(mud["A"], last'.arg.addr, last'.arg.cmsgs) = 0)
       => /\ Len(mud'["A"].path) = Len(Paths("A"))
          /\ \A i \in 1..Len(Paths("A")) :
                Timing(mud'["A"].path[i]) = Timing(Paths("A")[i])
          /\ last'.out = <<>>
          /\ [mud'["A"] EXCEPT !.crypto.bad_key = 0]
                = [mud["A"] EXCEPT !.crypto.bad_key = 0]]_vars

\* The tick of engine m at time t may send a keyx on path i: crypto.send_time
\* is 0 or send_timeout old and, on a non-active path, bad_key is set, on an
\* active path, crypto.recv_time is 0 or MUD_KEYX_TIMEOUT old.
KeyxEligible(m, i, t) ==
    /\ Older(t, m.crypto.send_time, m.send_timeout)
    /\ IF m.path[i].active = 0 THEN m.crypto.bad_key # 0
       ELSE Older(t, m.crypto.recv_time, 60 * MUD_ONE_MIN)

\* The tick of engine m at time t may send an mtux on path i when its keyx,
\* if any, goes to path kx: the path is active and not the one of the keyx,
\* mtu.remote is 0 and mtu.send_time is 0 or send_timeout old.
MtuxEligible(m, i, t, kx) ==
    /\ m.path[i].active # 0
    /\ i \notin kx
    /\ m.mtu.remote = 0
    /\ Older(t, m.mtu.send_time, m.send_timeout)

\* The least element of a set of positions, as a set: {} for {}.
First(S) == {i \in S : \A j \in S : i <= j}

\* The paths, by position, to which out holds a sendmsg call of kind msg.
PathsOf(out, msg) == {out[k].idx : k \in {x \in 1..Len(out) : out[x].msg = msg}}

\* C26 (global pacing of keyx and mtux): a call of mud_send_ctrl makes at
\* most one sendmsg call of a keyx and at most one of an mtux over all
\* paths, the keyx on the first path in list order on which a keyx may be
\* sent, the mtux on the first on which an mtux may be sent; and a keyx is
\* sent only when crypto.send_time is 0 or at least send_timeout ago, and
\* leaves crypto.send_time = now, which nothing else changes, so that two
\* keyx of the tick are at least send_timeout apart.
C26_GlobalPacing ==
    [][Called("ctrl")
       => LET m == mud["A"]
              all == 1..Len(m.path)
              kx == PathsOf(last'.out, mud_keyx)
              mx == PathsOf(last'.out, mud_mtux)
          IN  /\ Cardinality({k \in 1..Len(last'.out) : last'.out[k].msg = mud_keyx}) <= 1
              /\ Cardinality({k \in 1..Len(last'.out) : last'.out[k].msg = mud_mtux}) <= 1
              /\ kx = First({i \in all : KeyxEligible(m, i, now)})
              /\ mx = First({i \in all : MtuxEligible(m, i, now, kx)})
              /\ mud'["A"].crypto.send_time =
                    (IF kx = {} THEN m.crypto.send_time ELSE now)
              /\ kx # {} => \/ m.crypto.send_time = 0
                            \/ now - m.crypto.send_time >= m.send_timeout]_vars
    /\ [][mud'["A"].crypto.send_time # mud["A"].crypto.send_time => Called("ctrl")]_vars

\* A reached: a tick of A with two active paths has just sent its second
\* keyx, send_timeout after the first, on the first path, and an mtux on the
\* second.
C26_Witness ==
    /\ last.op = "ctrl"
    /\ now = T0 + mud["A"].send_timeout
    /\ Len(last.out) = 2
    /\ last.out[1].msg = mud_keyx
    /\ last.out[1].idx = 1
    /\ last.out[2].msg = mud_mtux
    /\ last.out[2].idx = 2
    /\ mud["A"].crypto.send_time = now
    /\ mud["A"].mtu.send_time = now
====
